---- MODULE Spec2Model ----
(***************************************************************************)
(* A model of the HR policy RAG agent: the BERT reranker                   *)
(* (src/src/rag/reranker.py), the prompt registry (src/src/rag/prompts.py),*)
(* the orchestrating chain (src/src/rag/chain.py) and the HTTP endpoints   *)
(* POST /query, POST /upload, GET /prompts (src/src/api/server.py).        *)
(*                                                                         *)
(* Python values are modelled as follows.                                  *)
(*   str used only as a token (question, answer, page)  -> a TLA+ string   *)
(*   str that the code takes apart (file names, extensions, source names)  *)
(*                                      -> a sequence of 1-character strings*)
(*   dict                               -> a set of <<key, value>> pairs   *)
(*   list                               -> a sequence                      *)
(*   Optional[int]                      -> <<>> for None, <<n>> for n      *)
(*   float scores of the cross-encoder  -> small integers (only their      *)
(*                                         order is used by the code)      *)
(***************************************************************************)
EXTENDS Integers, Sequences, FiniteSets, TLC

VARIABLES
    settings,         \* src/config.py: the Settings singleton (the RAG fields)
    PROMPT_VERSIONS,  \* src/rag/prompts.py: the registry, a sequence of <<version, builder>>
    gp,               \* outcome of the last get_prompt / list_prompt_versions call
    chain,            \* src/api/server.py: the global chain (<<>> is None)
    index,            \* the Chroma collection: a sequence of stored chunks
    call,             \* the HRPolicyChain.query invocation in progress (its locals)
    log,              \* observability records emitted by HRPolicyChain.query
    http,             \* the POST /query request being served and its response
    rr,               \* a direct BERTReranker.rerank call: arguments and outcome
    up,               \* the last POST /upload request and its response
    tmp_files,        \* names of the files present in the temp directory
    tmp_seq,          \* how many temp files have been created so far
    slack_app,        \* src/slack/bot.py: whether the module built its AsyncApp
    teams_bot,        \* src/api/server.py: the global teams_bot (<<>> is None)
    slack,            \* the Slack event being handled and the message shown for it
    teams,            \* the Teams activity being handled and the activities sent
    session_history,  \* src/slack/bot.py: session_history, thread id -> turns
    wcall,            \* the HRPolicyChain.query invocation of each worker thread
    wlog,             \* observability records emitted by each worker's invocation
    health,           \* the last GET /health response
    sh,               \* a direct session-history call, and the turns appended so far
    startup,          \* how far process start has come, and the environment it reads
    fs,               \* the directory an ingestor is pointed at, and its files
    ingestor,         \* src/api/server.py: the global ingestor (<<>> is None)
    ing               \* a direct DocumentIngestor call: arguments and outcome

\* the state of the chat adapters, and of the ingestion pipeline
chatVars == <<slack_app, teams_bot, slack, teams, session_history, wcall, wlog, health, sh,
              startup>>
ingestVars == <<fs, ingestor, ing>>

vars == <<settings, PROMPT_VERSIONS, gp, chain, index, call, log, http, rr, up,
          tmp_files, tmp_seq, chatVars, ingestVars>>

-----------------------------------------------------------------------------
(* Bounds of the model *)

\* longest candidate list handed to a direct rerank call
MaxCand == 3
\* largest number of chunks the persisted collection holds at startup
MaxIndex == 3
\* largest number of temp files ever created (bounds POST /upload)
MaxUploads == 2
\* the most files a directory holds
MaxFiles == 3
\* the longest document that is split
MaxDocLen == 4
\* the largest chunk_size and chunk_overlap a caller passes
MaxChunk == 3
\* the most direct update_session_history calls of one run
MaxTurns == 7

-----------------------------------------------------------------------------
(* Python helpers *)

None == <<>>
Some(x) == <<x>>

Min(a, b) == IF a <= b THEN a ELSE b
Max(a, b) == IF a >= b THEN a ELSE b

\* dict.get(key, default) on a dict given as a set of <<key, value>> pairs
DictGet(d, key, default) ==
    IF \E p \in d : p[1] = key
    THEN (CHOOSE p \in d : p[1] = key)[2]
    ELSE default

\* d[key] = value on a dict given as a set of <<key, value>> pairs
DictPut(d, key, value) == {p \in d : p[1] # key} \cup {<<key, value>>}

\* s[:k] for a list s and an integer k (a negative k counts from the end)
SliceTo(s, k) ==
    IF k >= 0 THEN SubSeq(s, 1, Min(k, Len(s)))
    ELSE SubSeq(s, 1, Max(0, Len(s) + k))

\* s[-k:] for a list s and k > 0
SliceLast(s, k) == SubSeq(s, Max(1, Len(s) - k + 1), Len(s))

Range(s) == {s[i] : i \in 1..Len(s)}

\* the sequences without repetition over S of length at most n
RECURSIVE DistinctSeqs(_, _)
DistinctSeqs(S, n) ==
    IF n = 0 THEN {<<>>}
    ELSE LET shorter == DistinctSeqs(S, n - 1)
         IN  shorter \cup
             {Append(p[1], p[2]) :
                p \in {q \in shorter \X S : Len(q[1]) = n - 1 /\ q[2] \notin Range(q[1])}}

-----------------------------------------------------------------------------
(* The universe of values the model draws from *)

\* str.lower() on one character
LowerChar(ch) ==
    CASE ch = "P" -> "p" [] ch = "D" -> "d" [] ch = "F" -> "f"
      [] ch = "T" -> "t" [] ch = "X" -> "x" [] ch = "A" -> "a"
      [] OTHER -> ch

\* str.lower()
Lower(s) == [i \in 1..Len(s) |-> LowerChar(s[i])]

ExtPdf  == <<".", "p", "d", "f">>
ExtDocx == <<".", "d", "o", "c", "x">>
ExtTxt  == <<".", "t", "x", "t">>
ExtXlsx == <<".", "x", "l", "s", "x">>

UnknownSource == <<"U", "n", "k", "n", "o", "w", "n">>
UnknownType   == <<"u", "n", "k", "n", "o", "w", "n">>

\* chunks that a persisted collection may hold.  Chroma gives every entry an
\* id; metadata keys may be missing (chunks inserted by other tools).
PoolChunks ==
    { [id |-> "c1", page_content |-> "t1",
       metadata |-> {<<"source", <<"a">> \o ExtPdf>>, <<"page", "1">>, <<"file_type", ExtPdf>>}],
      [id |-> "c2", page_content |-> "t2",
       metadata |-> {<<"source", <<"a">> \o ExtPdf>>, <<"page", "2">>, <<"file_type", ExtPdf>>}],
      [id |-> "c3", page_content |-> "t3",
       metadata |-> {<<"source", <<"b">> \o ExtTxt>>, <<"file_type", ExtTxt>>}],
      [id |-> "c4", page_content |-> "t4",
       metadata |-> {<<"page", "2">>}] }

Questions == {"q1", "q2"}

\* scores the cross-encoder may give to one pair
Scores == 0..2

\* values of top_k a caller may pass to rerank: None, 0, positive and negative ints
TopKs == {None} \cup {Some(k) : k \in (0 - 1)..(MaxCand + 1)}

\* the values the RAG settings take: the defaults of src/config.py and smaller
\* values set through the environment (TOP_K_RETRIEVAL, TOP_K_RERANK)
DefaultTopKRetrieval == 20
DefaultTopKRerank == 5
\* the defaults of chunk_size and chunk_overlap
DefaultChunkSize == 1000
DefaultChunkOverlap == 200

\* Settings() with nothing set through the environment
DefaultSettings ==
    [chunk_size |-> DefaultChunkSize, chunk_overlap |-> DefaultChunkOverlap,
     top_k_retrieval |-> DefaultTopKRetrieval, top_k_rerank |-> DefaultTopKRerank]

\* the fields class Settings declares; extra environment variables are
\* ignored ("extra": "ignore"), so the instance has no other attribute
SettingsFields ==
    {"google_api_key", "gemini_model", "embedding_model", "reranker_model",
     "chroma_persist_dir", "chroma_collection_name", "chunk_size", "chunk_overlap",
     "top_k_retrieval", "top_k_rerank", "api_host", "api_port"}

\* the chat-platform settings the Slack module and lifespan read
ChatSettingNames ==
    {"slack_bot_token", "slack_signing_secret", "slack_app_token",
     "microsoft_app_id", "microsoft_app_password", "teams_disable_auth"}

\* settings.<name> for a chat-platform setting, in a process whose
\* environment sets the variables env: the value is truthy when the field is
\* declared and its variable is set; an undeclared name raises AttributeError
settings_getattr(name, env) ==
    IF name \notin SettingsFields
    THEN [raised |-> "AttributeError", value |-> FALSE]
    ELSE [raised |-> "", value |-> name \in env]

SettingsChoices ==
    [chunk_size      : {DefaultChunkSize},
     chunk_overlap   : {DefaultChunkOverlap},
     top_k_retrieval : {2, DefaultTopKRetrieval},
     top_k_rerank    : {1, 2, DefaultTopKRerank}]

-----------------------------------------------------------------------------
(* src/src/rag/reranker.py *)

\* what self.model.predict(pairs) may do with n pairs: raise, or give n scores
Predictions(n) ==
    {[raises |-> TRUE, scores |-> <<>>]} \cup
    {[raises |-> FALSE, scores |-> sc] : sc \in [1..n -> Scores]}

\* list.sort(key=score, reverse=True): descending, and stable (equal keys keep
\* their original order also under reverse=True).  Computed by inserting each
\* element, left to right, behind every element whose score is not smaller.
RECURSIVE SortByScoreReverse(_)
SortByScoreReverse(items) ==
    IF items = <<>> THEN <<>>
    ELSE LET n      == Len(items)
             sorted == SortByScoreReverse(SubSeq(items, 1, n - 1))
             e      == items[n]
             k      == Cardinality({i \in 1..Len(sorted) : sorted[i].score >= e.score})
         IN  SubSeq(sorted, 1, k) \o <<e>> \o SubSeq(sorted, k + 1, Len(sorted))

\* a sort that is descending but puts a later element before its equals
RECURSIVE SortUnstable(_)
SortUnstable(items) ==
    IF items = <<>> THEN <<>>
    ELSE LET n      == Len(items)
             sorted == SortUnstable(SubSeq(items, 1, n - 1))
             e      == items[n]
             k      == Cardinality({i \in 1..Len(sorted) : sorted[i].score > e.score})
         IN  SubSeq(sorted, 1, k) \o <<e>> \o SubSeq(sorted, k + 1, Len(sorted))

\* a sort that forgets reverse=True
RECURSIVE SortAscending(_)
SortAscending(items) ==
    IF items = <<>> THEN <<>>
    ELSE LET n      == Len(items)
             sorted == SortAscending(SubSeq(items, 1, n - 1))
             e      == items[n]
             k      == Cardinality({i \in 1..Len(sorted) : sorted[i].score <= e.score})
         IN  SubSeq(sorted, 1, k) \o <<e>> \o SubSeq(sorted, k + 1, Len(sorted))

\* scored_docs.sort(key=lambda x: x["score"], reverse=True)
sort_scored_docs(scored_docs) == SortByScoreReverse(scored_docs)

\* top_k = top_k or settings.top_k_rerank   (None and 0 are both falsy)
effective_top_k(top_k) ==
    IF top_k # None /\ top_k[1] # 0 THEN top_k[1] ELSE settings.top_k_rerank

\* the body of rerank after the empty-list test: score, sort, rank, truncate
rerank_scored(documents, k, pred) ==
    IF pred.raises
    THEN [raised |-> "PredictError", value |-> <<>>, predict_calls |-> 1]
    ELSE LET scored_docs == [i \in 1..Len(documents) |->
                                [document |-> documents[i], score |-> pred.scores[i], rank |-> 0]]
             sorted   == sort_scored_docs(scored_docs)
             ranked   == [i \in 1..Len(sorted) |-> [sorted[i] EXCEPT !.rank = i]]
             reranked == SliceTo(ranked, k)
         IN  IF reranked = <<>>
             \* the log line reads reranked[0]['score']
             THEN [raised |-> "IndexError", value |-> <<>>, predict_calls |-> 1]
             ELSE [raised |-> "", value |-> reranked, predict_calls |-> 1]

\* rerank that scores before it looks at the candidate list
rerank_no_empty_test(query, documents, top_k, pred) ==
    rerank_scored(documents, effective_top_k(top_k), pred)

\* BERTReranker.rerank(query, documents, top_k); pred is what the model does
\* if it is invoked.  The outcome tells what was raised ("" for a normal
\* return), the list returned and how often the model was invoked.
rerank(query, documents, top_k, pred) ==
    LET k == effective_top_k(top_k)
    IN  IF documents = <<>>
        THEN [raised |-> "", value |-> <<>>, predict_calls |-> 0]
        ELSE rerank_scored(documents, k, pred)

\* BERTReranker.rerank_to_documents
rerank_to_documents(query, documents, top_k, pred) ==
    LET r == rerank(query, documents, top_k, pred)
    IN  [r EXCEPT !.value = [i \in 1..Len(r.value) |-> r.value[i].document]]

-----------------------------------------------------------------------------
(* src/src/rag/prompts.py *)

\* prompt_v1(): a system message with {context} and a human message {question}
prompt_v1 ==
    [name |-> "baseline",
     messages |-> << [role |-> "system", variables |-> {"context"}],
                     [role |-> "human",  variables |-> {"question"}] >>]

\* prompt_v2(): the same variables, a structured answer/source/confidence layout
prompt_v2 ==
    [name |-> "structured-confidence",
     messages |-> << [role |-> "system", variables |-> {"context"}],
                     [role |-> "human",  variables |-> {"question"}] >>]

\* calling the builder function a registry entry holds
CallBuilder(builder) ==
    CASE builder = "prompt_v1" -> prompt_v1
      [] builder = "prompt_v2" -> prompt_v2

\* PROMPT_VERSIONS once the module is imported: the two @register_prompt
\* decorators have run, in source order (a dict keeps insertion order)
RegistryAfterImport == << <<"v1.0", "prompt_v1">>, <<"v2.0", "prompt_v2">> >>

\* PROMPT_VERSIONS.keys(), in order
RegistryKeys(registry) == [i \in 1..Len(registry) |-> registry[i][1]]

\* version strings a caller may ask for
VersionInputs == {"v1.0", "v2.0", "v99.0", "v2", ""}

\* get_prompt that falls back to the default version for an unknown key
get_prompt_lenient(version) ==
    LET keys == RegistryKeys(PROMPT_VERSIONS)
        v    == IF version \in Range(keys) THEN version ELSE "v2.0"
        i    == CHOOSE j \in 1..Len(keys) : keys[j] = v
    IN  [raised |-> "", value |-> Some(CallBuilder(PROMPT_VERSIONS[i][2])),
         version |-> version, available |-> <<>>]

\* get_prompt(version): the template, or KeyError with the available versions
get_prompt(version) ==
    LET keys == RegistryKeys(PROMPT_VERSIONS)
    IN  IF version \notin Range(keys)
        THEN [raised |-> "KeyError", value |-> None,
              version |-> version, available |-> keys]
        ELSE LET i == CHOOSE j \in 1..Len(keys) : keys[j] = version
             IN  [raised |-> "", value |-> Some(CallBuilder(PROMPT_VERSIONS[i][2])),
                  version |-> version, available |-> <<>>]

\* list_prompt_versions()
list_prompt_versions == RegistryKeys(PROMPT_VERSIONS)

\* ChatPromptTemplate.input_variables
InputVariables(template) ==
    UNION {template.messages[i].variables : i \in 1..Len(template.messages)}

\* template.format_messages(**kwargs): one message per message template, each
\* with its variables filled in; KeyError when a variable is not supplied
format_messages(template, kwargs) ==
    IF \E v \in InputVariables(template) : ~(\E kv \in kwargs : kv[1] = v)
    THEN [raised |-> "KeyError", value |-> <<>>]
    ELSE [raised |-> "",
          value |-> [i \in 1..Len(template.messages) |->
                        [role |-> template.messages[i].role,
                         template |-> template.name,
                         filled |-> {kv \in kwargs : kv[1] \in template.messages[i].variables}]]]

-----------------------------------------------------------------------------
(* src/src/rag/chain.py *)

\* the fixed answer of the no-knowledge path
FallbackAnswer == "I don't have any policy documents loaded yet."

\* QueryResult(...) with the dataclass defaults for the fields not given.
\* latency_ms is wall-clock time and is not modelled.
QueryResultDefaults ==
    [answer |-> "", sources |-> <<>>, query |-> "", tokens_used |-> 0,
     chunks_retrieved |-> 0, chunks_after_rerank |-> 0, prompt_version |-> ""]

\* HRPolicyChain.__init__(vector_store, reranker, prompt_version): the outcome
\* of get_prompt decides whether construction succeeds
HRPolicyChainInit(prompt_version) ==
    LET r == get_prompt(prompt_version)
    IN  IF r.raised # ""
        THEN [raised |-> r.raised, value |-> None]
        ELSE [raised |-> "",
              value |-> Some([prompt_version |-> prompt_version, prompt |-> r.value[1]])]

\* str(n) for a small n
IntStr(n) == <<"0", "1", "2", "3", "4", "5", "6", "7", "8", "9">>[n + 1]

\* sep.join(parts) for strings written as sequences of tokens
RECURSIVE StrJoin(_, _)
StrJoin(parts, sep) ==
    IF parts = <<>> THEN <<>>
    ELSE IF Len(parts) = 1 THEN parts[1]
    ELSE parts[1] \o <<sep>> \o StrJoin(Tail(parts), sep)

\* the separator between the segments of the context
ContextSeparator == "\n\n---\n\n"

\* f"[Document {i}: {source}, Page {page}]\n{doc.page_content}", a string
\* written as its sequence of tokens (a source name is its characters)
context_part(i, doc) ==
    <<"[Document ", IntStr(i), ": ">>
    \o DictGet(doc.metadata, "source", UnknownSource)
    \o <<", Page ", DictGet(doc.metadata, "page", "N/A"), "]\n", doc.page_content>>

\* _build_context with enumerate(documents) counting from 0
build_context_from_zero(documents) ==
    StrJoin([i \in 1..Len(documents) |-> context_part(i - 1, documents[i])],
            ContextSeparator)

\* HRPolicyChain._build_context: one segment per document, numbered from 1,
\* joined by the separator
_build_context(documents) ==
    StrJoin([i \in 1..Len(documents) |-> context_part(i, documents[i])],
            ContextSeparator)

\* the loop of _extract_sources from document i on
RECURSIVE extract_sources_from(_, _, _, _)
extract_sources_from(documents, i, seen, sources) ==
    IF i > Len(documents) THEN sources
    ELSE LET doc         == documents[i]
             source_name == DictGet(doc.metadata, "source", UnknownSource)
         IN  IF source_name \notin seen
             THEN extract_sources_from(documents, i + 1, seen \cup {source_name},
                      Append(sources,
                             [document  |-> source_name,
                              page      |-> DictGet(doc.metadata, "page", "N/A"),
                              file_type |-> DictGet(doc.metadata, "file_type", UnknownType)]))
             ELSE extract_sources_from(documents, i + 1, seen, sources)

\* _extract_sources without the seen set: one entry per chunk
extract_sources_no_dedup(documents) ==
    [i \in 1..Len(documents) |->
        [document  |-> DictGet(documents[i].metadata, "source", UnknownSource),
         page      |-> DictGet(documents[i].metadata, "page", "N/A"),
         file_type |-> DictGet(documents[i].metadata, "file_type", UnknownType)]]

\* HRPolicyChain._extract_sources
_extract_sources(documents) == extract_sources_from(documents, 1, {}, <<>>)

\* a similarity search that returns the whole collection, whatever k is
RetrievalsUnlimited(k) ==
    {[raises |-> TRUE, docs |-> <<>>]} \cup
    {[raises |-> FALSE, docs |-> d] :
        d \in {e \in DistinctSeqs(index, Cardinality(index)) : Len(e) = Cardinality(index)}}

\* what self.vector_store.similarity_search(question, k) may do: raise, or
\* return the min(k, count) best entries of the collection, in the order the
\* store ranks them for this question (any order, to the chain)
Retrievals(k) ==
    LET n == Min(k, Cardinality(index))
    IN  {[raises |-> TRUE, docs |-> <<>>]} \cup
        {[raises |-> FALSE, docs |-> d] : d \in {e \in DistinctSeqs(index, n) : Len(e) = n}}

\* what self.llm.invoke(messages) may do: raise, or return a response whose
\* content may be empty and whose usage_metadata may be empty, may lack
\* total_tokens, or may report it
LlmOutcomes ==
    {[raises |-> TRUE, content |-> "", usage_metadata |-> {}]} \cup
    {[raises |-> FALSE, content |-> c, usage_metadata |-> u] :
        c \in {"", "generated answer"},
        u \in {{}, {<<"input_tokens", 3>>}, {<<"total_tokens", 7>>}}}

\* response.usage_metadata.get("total_tokens", 0) if ... usage_metadata else 0
tokens_of(response) ==
    IF response.usage_metadata # {}
    THEN DictGet(response.usage_metadata, "total_tokens", 0)
    ELSE 0

\* the locals of one HRPolicyChain.query invocation, before it is entered.
\* n_index, n_rerank, n_llm count the invocations of the three collaborators.
IdleCall ==
    [pc |-> "idle", question |-> "", retrieved_docs |-> <<>>, reranked_docs |-> <<>>,
     context |-> <<>>, sources |-> <<>>, messages |-> <<>>, response |-> None,
     result |-> None, raised |-> "",
     n_index |-> 0, n_rerank |-> 0, n_llm |-> 0]

\* the parameters of query besides self
QueryParameters == {"question"}

\* entering HRPolicyChain.query(question)
query_enter(question) == [IdleCall EXCEPT !.pc = "retrieve", !.question = question]

\* the call query(question, **kwargs): a keyword the signature does not have
\* raises TypeError before the body is entered
query_call(question, kwargs) ==
    IF \E kv \in kwargs : kv[1] \notin QueryParameters
    THEN [IdleCall EXCEPT !.pc = "raised", !.raised = "TypeError"]
    ELSE query_enter(question)

\* Step 1 of query in the invocation with locals c: similarity_search, then
\* the no-knowledge return
query_retrieve_in(c, ret) ==
    IF ret.raises
    THEN [c EXCEPT !.pc = "raised", !.raised = "IndexUnreachable", !.n_index = @ + 1]
    ELSE IF ret.docs = <<>>
    THEN [c EXCEPT !.pc = "returned", !.n_index = @ + 1,
                   !.result = Some([QueryResultDefaults EXCEPT
                                       !.answer = FallbackAnswer,
                                       !.query = c.question])]
    ELSE [c EXCEPT !.pc = "rerank", !.retrieved_docs = ret.docs, !.n_index = @ + 1]

\* query without the empty test after retrieval
query_retrieve_no_fallback(ret) ==
    IF ret.raises
    THEN [call EXCEPT !.pc = "raised", !.raised = "IndexUnreachable", !.n_index = @ + 1]
    ELSE [call EXCEPT !.pc = "rerank", !.retrieved_docs = ret.docs, !.n_index = @ + 1]

\* query that hands the retrieved chunks to generation without reranking
query_retrieve_skip_rerank(ret) ==
    IF ret.raises
    THEN [call EXCEPT !.pc = "raised", !.raised = "IndexUnreachable", !.n_index = @ + 1]
    ELSE IF ret.docs = <<>>
    THEN query_retrieve_in(call, ret)
    ELSE [call EXCEPT !.pc = "generate", !.retrieved_docs = ret.docs, !.n_index = @ + 1]

\* Step 1 of the query called by query_policies
query_retrieve(ret) == query_retrieve_in(call, ret)

\* Steps 2-4a of query in the invocation with locals c: rerank_to_documents,
\* _build_context, _extract_sources, prompt.format_messages
query_rerank_in(c, pred) ==
    LET r == rerank_to_documents(c.question, c.retrieved_docs,
                                 Some(settings.top_k_rerank), pred)
    IN  IF r.raised # ""
        THEN [c EXCEPT !.pc = "raised", !.raised = r.raised, !.n_rerank = @ + 1]
        ELSE [c EXCEPT !.pc = "generate", !.n_rerank = @ + 1,
                       !.reranked_docs = r.value,
                       !.context = _build_context(r.value),
                       !.sources = _extract_sources(r.value),
                       !.messages = format_messages(chain[1].prompt,
                                       {<<"context", _build_context(r.value)>>,
                                        <<"question", c.question>>}).value]

\* query that tries the reranker a second time when it raised
query_rerank_retry(pred) ==
    LET r == rerank_to_documents(call.question, call.retrieved_docs,
                                 Some(settings.top_k_rerank), pred)
    IN  IF r.raised # ""
        THEN [call EXCEPT !.n_rerank = @ + 1]
        ELSE query_rerank_in(call, pred)

\* Steps 2-4a of the query called by query_policies
query_rerank(pred) == query_rerank_in(call, pred)

\* a query that takes the question from the invocation made by query_policies
query_generate_shared(c, out) ==
    IF out.raises
    THEN [c EXCEPT !.pc = "raised", !.raised = "GenerationError", !.n_llm = @ + 1]
    ELSE [c EXCEPT !.pc = "returned", !.n_llm = @ + 1, !.response = Some(out),
                   !.result = Some([answer |-> out.content,
                                    sources |-> c.sources,
                                    query |-> call.question,
                                    tokens_used |-> tokens_of(out),
                                    chunks_retrieved |-> Len(c.retrieved_docs),
                                    chunks_after_rerank |-> Len(c.reranked_docs),
                                    prompt_version |-> chain[1].prompt_version])]

\* Step 4b of query and the result, in the invocation with locals c:
\* llm.invoke, QueryResult(...), the log line
query_generate_in(c, out) ==
    IF out.raises
    THEN [c EXCEPT !.pc = "raised", !.raised = "GenerationError", !.n_llm = @ + 1]
    ELSE [c EXCEPT !.pc = "returned", !.n_llm = @ + 1, !.response = Some(out),
                   !.result = Some([answer |-> out.content,
                                    sources |-> c.sources,
                                    query |-> c.question,
                                    tokens_used |-> tokens_of(out),
                                    chunks_retrieved |-> Len(c.retrieved_docs),
                                    chunks_after_rerank |-> Len(c.reranked_docs),
                                    prompt_version |-> chain[1].prompt_version])]

\* Step 4b of the query called by query_policies
query_generate(out) == query_generate_in(call, out)

\* a record that reports the retrieved count for both funnel sizes
observability_record_one_size(result) ==
    [chunks_retrieved |-> result.chunks_retrieved,
     chunks_after_rerank |-> result.chunks_retrieved,
     tokens |-> result.tokens_used,
     prompt |-> chain[1].prompt_version]

\* the "Query completed | ..." record written before query returns
observability_record(result) ==
    [chunks_retrieved |-> result.chunks_retrieved,
     chunks_after_rerank |-> result.chunks_after_rerank,
     tokens |-> result.tokens_used,
     prompt |-> chain[1].prompt_version]

-----------------------------------------------------------------------------
(* src/src/rag/ingest.py *)

\* the separators handed to the splitter, in the order it tries them
Separators == <<"\n\n", "\n", ". ", " ", "">>

\* RecursiveCharacterTextSplitter(chunk_size, chunk_overlap, ...): the library
\* refuses an overlap larger than the chunk size
TextSplitterInit(chunk_size, chunk_overlap) ==
    IF chunk_overlap > chunk_size
    THEN [raised |-> "ValueError", value |-> None]
    ELSE [raised |-> "",
          value |-> Some([chunk_size |-> chunk_size, chunk_overlap |-> chunk_overlap,
                          separators |-> Separators])]

\* DocumentIngestor.__init__(chunk_size, chunk_overlap); an argument is None
\* or Some(n).  "x or default" takes the default for None and for 0.
DocumentIngestorInit(chunk_size, chunk_overlap) ==
    LET size    == IF chunk_size # None /\ chunk_size[1] # 0
                   THEN chunk_size[1] ELSE settings.chunk_size
        overlap == IF chunk_overlap # None /\ chunk_overlap[1] # 0
                   THEN chunk_overlap[1] ELSE settings.chunk_overlap
        sp      == TextSplitterInit(size, overlap)
    IN  IF sp.raised # ""
        THEN [raised |-> sp.raised, value |-> None]
        ELSE [raised |-> "",
              value |-> Some([chunk_size |-> size, chunk_overlap |-> overlap,
                              text_splitter |-> sp.value[1]])]

\* LOADER_MAP: the supported extensions, in the order of the dict, with the
\* loader class of each
LOADER_MAP ==
    << <<ExtPdf, "PyPDFLoader">>, <<ExtDocx, "Docx2txtLoader">>, <<ExtTxt, "TextLoader">> >>

\* LOADER_MAP.keys()
LoaderKeys == [i \in 1..Len(LOADER_MAP) |-> LOADER_MAP[i][1]]

\* Path(name).suffix: the name from its last dot on, unless that dot is the
\* first or the last character
PathSuffix(name) ==
    LET dots == {i \in 1..Len(name) : name[i] = "."}
    IN  IF dots = {} THEN <<>>
        ELSE LET d == CHOOSE i \in dots : \A j \in dots : j <= i
             IN  IF 1 < d /\ d < Len(name) THEN SubSeq(name, d, Len(name)) ELSE <<>>

\* the names a file of the directory may have
PathNames ==
    { <<"a">> \o ExtPdf, <<"a">> \o <<".", "P", "D", "F">>, <<"b">> \o ExtTxt,
      <<"c">> \o ExtDocx, <<"x">> \o ExtXlsx, ExtPdf, <<"n">> }

\* a file of the directory: its name, whether its loader reads it, and how
\* many pages it has (more than one only for a PDF that can be read)
FileEntries ==
    {x \in [name : PathNames, loads : BOOLEAN, pages : 1..2] :
        (~x.loads \/ Lower(PathSuffix(x.name)) # ExtPdf) => x.pages = 1}

\* the sets of at most n files with distinct names
RECURSIVE FileSets(_)
FileSets(n) ==
    IF n = 0 THEN {{}}
    ELSE LET smaller == FileSets(n - 1)
         IN  smaller \cup
             {p[1] \cup {p[2]} :
                p \in {q \in smaller \X FileEntries :
                         \A x \in q[1] : x.name # q[2].name}}

\* the states of the path an ingestor is pointed at: missing, a plain file,
\* or a directory holding up to MaxFiles files
Directories ==
    {[kind |-> "missing", files |-> {}], [kind |-> "file", files |-> {}]} \cup
    {[kind |-> "dir", files |-> f] : f \in FileSets(MaxFiles)}

\* the entry of the directory named name; Path(name).exists() is HasFile
HasFile(name) == \E x \in fs.files : x.name = name
FileNamed(name) == CHOOSE x \in fs.files : x.name = name

\* loader.load() on a file that can be read: one Document per page of a PDF
\* (with its 0-based page number), one Document for a DOCX or TXT file; the
\* metadata source is the path the loader was given
LoaderLoad(entry, ext) ==
    [i \in 1..(IF ext = ExtPdf THEN entry.pages ELSE 1) |->
        [page_content |-> "page text",
         metadata |-> {<<"source", <<"/">> \o entry.name>>} \cup
                      (IF ext = ExtPdf THEN {<<"page", <<"0", "1">>[i]>>} ELSE {})]]

\* load_document with the suffix taken as it is written
load_document_cased(name) ==
    IF ~HasFile(name)
    THEN [raised |-> "FileNotFoundError", detail |-> <<>>, value |-> <<>>,
          loader_calls |-> <<>>]
    ELSE IF PathSuffix(name) \notin Range(LoaderKeys)
    THEN [raised |-> "ValueError",
          detail |-> <<PathSuffix(name)>> \o LoaderKeys,
          value |-> <<>>, loader_calls |-> <<>>]
    ELSE [raised |-> "", detail |-> <<>>, value |-> <<>>, loader_calls |-> <<name>>]

\* DocumentIngestor.load_document(file_path) for a path named name in the
\* directory: FileNotFoundError, ValueError with the extension and the
\* supported types, an exception of the loader, or the loaded documents with
\* source and file_type set.  loader_calls lists the files a loader was
\* built for.
load_document(name) ==
    LET ext == Lower(PathSuffix(name))
    IN  IF ~HasFile(name)
        THEN [raised |-> "FileNotFoundError", detail |-> <<>>, value |-> <<>>,
              loader_calls |-> <<>>]
        ELSE IF ext \notin Range(LoaderKeys)
        THEN [raised |-> "ValueError", detail |-> <<ext>> \o LoaderKeys,
              value |-> <<>>, loader_calls |-> <<>>]
        ELSE IF ~FileNamed(name).loads
        THEN [raised |-> "LoaderError", detail |-> <<>>, value |-> <<>>,
              loader_calls |-> <<name>>]
        ELSE LET documents == LoaderLoad(FileNamed(name), ext)
             IN  [raised |-> "", detail |-> <<>>,
                  value |-> [i \in 1..Len(documents) |->
                               [documents[i] EXCEPT
                                  !.metadata = DictPut(DictPut(@, "source", name),
                                                       "file_type", ext)]],
                  loader_calls |-> <<name>>]

\* the pattern "*" + ext matches a name that ends in ext, in the same case
GlobMatches(name, ext) ==
    /\ Len(name) >= Len(ext)
    /\ SubSeq(name, Len(name) - Len(ext) + 1, Len(name)) = ext

\* the orders in which the directory may list its files
ListingOrders == {o \in DistinctSeqs({x.name : x \in fs.files}, Cardinality(fs.files)) :
                    Len(o) = Cardinality(fs.files)}

\* dir_path.glob("*" + ext) for each ext of LOADER_MAP in turn, with the
\* directory listing its files in the order listing
GlobScan(listing) ==
    LET matching(ext) == SelectSeq(listing, LAMBDA name : GlobMatches(name, ext))
    IN  matching(LoaderKeys[1]) \o matching(LoaderKeys[2]) \o matching(LoaderKeys[3])

\* the loop of load_directory when the first failure is not caught
RECURSIVE load_directory_abort(_, _, _, _)
load_directory_abort(scan, i, all_documents, loader_calls) ==
    IF i > Len(scan)
    THEN [raised |-> "", detail |-> <<>>, value |-> all_documents,
          loader_calls |-> loader_calls]
    ELSE LET r == load_document(scan[i])
         IN  IF r.raised # ""
             THEN [r EXCEPT !.loader_calls = loader_calls \o r.loader_calls]
             ELSE load_directory_abort(scan, i + 1, all_documents \o r.value,
                                       loader_calls \o r.loader_calls)

\* the loop of load_directory from the i-th scanned file on: a file that
\* raises is logged and skipped
RECURSIVE load_directory_from(_, _, _, _)
load_directory_from(scan, i, all_documents, loader_calls) ==
    IF i > Len(scan)
    THEN [raised |-> "", detail |-> <<>>, value |-> all_documents,
          loader_calls |-> loader_calls]
    ELSE LET r == load_document(scan[i])
         IN  load_directory_from(scan, i + 1,
                                 IF r.raised = "" THEN all_documents \o r.value
                                 ELSE all_documents,
                                 loader_calls \o r.loader_calls)

\* DocumentIngestor.load_directory(dir_path)
load_directory(listing) ==
    IF fs.kind # "dir"
    THEN [raised |-> "NotADirectoryError", detail |-> <<>>, value |-> <<>>,
          loader_calls |-> <<>>]
    ELSE load_directory_from(GlobScan(listing), 1, <<>>, <<>>)

\* no directory given yet, and no call made yet
NoFs == [kind |-> "missing", files |-> {}]

\* ctor keeps the arguments of the last constructor call
IdleIng ==
    [op |-> "none", arg |-> <<>>, ctor |-> None,
     out |-> [raised |-> "", detail |-> <<>>, value |-> <<>>, loader_calls |-> <<>>]]


\* the chunkings text_splitter.split_documents may give for a document of
\* length L, each chunk written as the <<first, last>> positions of the text
\* it holds, when chunks so far end with the chunk prev: every chunk holds at
\* most size characters, no character is left out, and a chunk starts at
\* most overlap characters before the end of the chunk before it
RECURSIVE SplitsFrom(_, _, _, _)
SplitsFrom(L, size, overlap, prev) ==
    IF prev[2] = L THEN {<<>>}
    ELSE UNION {
           {<<nxt>> \o rest : rest \in SplitsFrom(L, size, overlap, nxt)} :
             nxt \in {c \in (1..L) \X (1..L) :
                        /\ c[1] > prev[1]
                        /\ c[1] >= prev[2] - overlap + 1
                        /\ c[1] <= prev[2] + 1
                        /\ c[2] > prev[2]
                        /\ c[2] - c[1] + 1 <= size}}

\* the chunkings of a whole document of length L
Splits(L, size, overlap) == SplitsFrom(L, size, overlap, <<0, 0>>)

\* DocumentIngestor.split_documents([doc]) for one document of length L,
\* cut as spans says
split_documents(L, spans) ==
    [raised |-> "", detail |-> <<>>,
     value |-> [i \in 1..Len(spans) |->
                  [page_content |-> spans[i], metadata |-> {<<"source", <<"d">>>>}]],
     loader_calls |-> <<>>]

\* the number of characters a chunk shares with the chunk before it
Overlap(prev, cur) == Max(0, prev.page_content[2] - cur.page_content[1] + 1)

\* the length of a chunk
ChunkLen(c) == c.page_content[2] - c.page_content[1] + 1

\* the values a caller may pass for chunk_size and for chunk_overlap
ChunkArgs == {None} \cup {Some(n) : n \in 0..MaxChunk}

\* ingestor = DocumentIngestor(chunk_size, chunk_overlap)
ConstructIngestor(chunk_size, chunk_overlap) ==
    LET r == DocumentIngestorInit(chunk_size, chunk_overlap)
    IN  /\ ingestor' = IF r.raised = "" THEN r.value ELSE ingestor
        /\ ing' = [op |-> "init", arg |-> <<chunk_size, chunk_overlap>>,
                   ctor |-> IF r.raised = "" THEN Some(<<chunk_size, chunk_overlap>>)
                            ELSE ing.ctor,
                   out |-> [raised |-> r.raised, detail |-> <<>>, value |-> <<>>,
                            loader_calls |-> <<>>]]
        /\ UNCHANGED <<settings, PROMPT_VERSIONS, gp, chain, index, call, log, http, rr,
                       up, tmp_files, tmp_seq, chatVars, fs>>

\* ingestor.split_documents([doc]) for a document of length L
SplitDocuments(L) ==
    /\ ingestor # None
    /\ \E spans \in Splits(L, ingestor[1].text_splitter.chunk_size,
                           ingestor[1].text_splitter.chunk_overlap) :
          ing' = [ing EXCEPT !.op = "split_documents", !.arg = <<L>>,
                             !.out = split_documents(L, spans)]
    /\ UNCHANGED <<settings, PROMPT_VERSIONS, gp, chain, index, call, log, http, rr,
                   up, tmp_files, tmp_seq, chatVars, fs, ingestor>>

\* ingestor.load_document(path) for a path named name in the directory
LoadDocument(name) ==
    /\ ingestor # None
    /\ ing' = [ing EXCEPT !.op = "load_document", !.arg = <<name>>,
                          !.out = load_document(name)]
    /\ UNCHANGED <<settings, PROMPT_VERSIONS, gp, chain, index, call, log, http, rr,
                   up, tmp_files, tmp_seq, chatVars, fs, ingestor>>

\* ingestor.load_directory(dir_path), the directory listing its files in
\* some order
LoadDirectory ==
    /\ ingestor # None
    /\ \E listing \in ListingOrders :
          ing' = [ing EXCEPT !.op = "load_directory", !.arg = <<listing>>,
                             !.out = load_directory(listing)]
    /\ UNCHANGED <<settings, PROMPT_VERSIONS, gp, chain, index, call, log, http, rr,
                   up, tmp_files, tmp_seq, chatVars, fs, ingestor>>

-----------------------------------------------------------------------------
(* src/src/api/server.py *)

\* QueryRequest.question: Field(min_length=3, max_length=1000)
MinQuestionLength == 3
MaxQuestionLength == 1000

\* lengths of the questions a client may send
QuestionLengths ==
    {MinQuestionLength - 1, MinQuestionLength, MaxQuestionLength, MaxQuestionLength + 1}

\* QueryRequest(**body): pydantic validation of the two fields.  The question
\* is a token with its length; prompt_version is any string, "v2.0" if absent.
QueryRequest(question, length, prompt_version) ==
    IF length < MinQuestionLength \/ length > MaxQuestionLength
    THEN [raised |-> "ValidationError", value |-> None]
    ELSE [raised |-> "",
          value |-> Some([question |-> question, length |-> length,
                          prompt_version |-> IF prompt_version = None THEN "v2.0"
                                             ELSE prompt_version[1]])]

\* the QueryResponse built from a QueryResult
QueryResponse(result) ==
    [status |-> 200, detail |-> "", answer |-> result.answer, sources |-> result.sources,
     metrics |-> [tokens_used |-> result.tokens_used,
                  chunks_retrieved |-> result.chunks_retrieved,
                  chunks_after_rerank |-> result.chunks_after_rerank,
                  prompt_version |-> result.prompt_version]]

\* an error response: HTTPException(status_code, detail)
ErrorResponse(status, detail) ==
    [status |-> status, detail |-> detail, answer |-> "", sources |-> <<>>,
     metrics |-> [tokens_used |-> 0, chunks_retrieved |-> 0,
                  chunks_after_rerank |-> 0, prompt_version |-> ""]]

IdleHttp == [pc |-> "idle", request |-> None, raw_prompt_version |-> None, response |-> None]

\* the first of the settings names that raises when read in order, or ""
RECURSIVE FirstRaise(_, _)
FirstRaise(names, env) ==
    IF names = <<>> THEN ""
    ELSE IF settings_getattr(names[1], env).raised # ""
    THEN settings_getattr(names[1], env).raised
    ELSE FirstRaise(Tail(names), env)

\* lifespan() from "Initialize Teams Bot" to the yield: teams_disable_auth
\* is read first, then the two credentials ("and" reads the password only
\* when the id is truthy); with both the adapter and TeamsBot(chain) are
\* built; then the socket-mode task is created.  An exception leaves the
\* context manager before the yield: the application does not start.
lifespan_teams(env, chain_instance) ==
    LET id_set == settings_getattr("microsoft_app_id", env).value
        reads  == IF settings_getattr("microsoft_app_id", env).raised = "" /\ id_set
                  THEN <<"teams_disable_auth", "microsoft_app_id", "microsoft_app_password">>
                  ELSE <<"teams_disable_auth", "microsoft_app_id">>
        raised == FirstRaise(reads, env)
    IN  IF raised # ""
        THEN [raised |-> raised, teams_bot |-> None, socket_task |-> FALSE]
        ELSE [raised |-> "",
              teams_bot |-> IF id_set /\ settings_getattr("microsoft_app_password", env).value
                            THEN Some([chain |-> chain_instance])
                            ELSE None,
              socket_task |-> TRUE]

\* lifespan(): the global ingestor is built with the configured chunk sizes
\* and the global chain with the default prompt version; init_slack_bot(chain)
\* makes _rag_chain of the Slack module the same object, so the variable
\* chain stands for both; then the Teams part.  The globals assigned before
\* an exception stay assigned.
Lifespan ==
    /\ chain = None
    /\ startup.pc = "imported"
    /\ ingestor' = DocumentIngestorInit(None, None).value
    /\ chain' = HRPolicyChainInit("v2.0").value
    /\ LET r == lifespan_teams(startup.env, HRPolicyChainInit("v2.0").value[1])
       IN  /\ teams_bot' = r.teams_bot
           /\ startup' = [startup EXCEPT !.pc = IF r.raised = "" THEN "serving" ELSE "failed",
                                         !.raised = r.raised,
                                         !.socket_task = r.socket_task]
    /\ UNCHANGED <<settings, PROMPT_VERSIONS, gp, index, call, log, http, rr, up,
                   tmp_files, tmp_seq>>
    /\ UNCHANGED <<slack_app, slack, teams, session_history, wcall, wlog, health, sh>>
    /\ UNCHANGED <<fs, ing>>

\* query_policies(request) up to the call chain.query(request.question):
\* request.prompt_version is not read
query_policies_enter(request) ==
    [http  |-> [http EXCEPT !.pc = "handling", !.request = Some(request),
                            !.response = None],
     call  |-> query_enter(request.question)]

\* POST /query arrives: the body is validated (422 on failure) and
\* query_policies starts.  The handler has no await: the event loop serves
\* nothing else until it responds.
HttpQueryReceive(question, length, prompt_version) ==
    /\ chain # None
    /\ http.pc \in {"idle", "responded"}
    /\ LET req == QueryRequest(question, length, prompt_version)
       IN  IF req.raised # ""
           THEN /\ http' = [pc |-> "responded", request |-> None,
                            raw_prompt_version |-> prompt_version,
                            response |-> Some(ErrorResponse(422, req.raised))]
                /\ call' = IdleCall
           ELSE LET e == query_policies_enter(req.value[1])
                IN  /\ http' = [e.http EXCEPT !.raw_prompt_version = prompt_version]
                    /\ call' = e.call
    /\ log' = <<>>
    /\ UNCHANGED <<settings, PROMPT_VERSIONS, gp, chain, index, rr, up, tmp_files, tmp_seq>>
    /\ UNCHANGED <<chatVars, ingestVars>>

\* chain.query, step 1
ChainRetrieve ==
    /\ call.pc = "retrieve"
    /\ \E ret \in Retrievals(settings.top_k_retrieval) : call' = query_retrieve(ret)
    /\ UNCHANGED <<settings, PROMPT_VERSIONS, gp, chain, index, log, http, rr, up,
                   tmp_files, tmp_seq>>
    /\ UNCHANGED <<chatVars, ingestVars>>

\* chain.query, steps 2 to 4a
ChainRerank ==
    /\ call.pc = "rerank"
    /\ \E pred \in Predictions(Len(call.retrieved_docs)) : call' = query_rerank(pred)
    /\ UNCHANGED <<settings, PROMPT_VERSIONS, gp, chain, index, log, http, rr, up,
                   tmp_files, tmp_seq>>
    /\ UNCHANGED <<chatVars, ingestVars>>

\* chain.query, step 4b to the return
ChainGenerate ==
    /\ call.pc = "generate"
    /\ \E out \in LlmOutcomes :
          /\ call' = query_generate(out)
          /\ log' = IF out.raises THEN log
                    ELSE Append(log, observability_record(query_generate(out).result[1]))
    /\ UNCHANGED <<settings, PROMPT_VERSIONS, gp, chain, index, http, rr, up,
                   tmp_files, tmp_seq>>
    /\ UNCHANGED <<chatVars, ingestVars>>

\* query_policies after chain.query: the QueryResponse, or HTTPException(500)
HttpQueryRespond ==
    /\ http.pc = "handling"
    /\ call.pc \in {"returned", "raised"}
    /\ http' = [http EXCEPT !.pc = "responded",
                            !.response = IF call.pc = "returned"
                                         THEN Some(QueryResponse(call.result[1]))
                                         ELSE Some(ErrorResponse(500, call.raised))]
    /\ UNCHANGED <<settings, PROMPT_VERSIONS, gp, chain, index, call, log, rr, up,
                   tmp_files, tmp_seq>>
    /\ UNCHANGED <<chatVars, ingestVars>>

\* os.path.splitext(p)[1] for a name without directory separators: the
\* suffix from the last dot on, unless only dots come before that dot
SplitExt(p) ==
    LET dots == {i \in 1..Len(p) : p[i] = "."}
    IN  IF dots = {} THEN <<>>
        ELSE LET d == CHOOSE i \in dots : \A j \in dots : j <= i
             IN  IF \E j \in 1..(d - 1) : p[j] # "."
                 THEN SubSeq(p, d, Len(p))
                 ELSE <<>>

\* the suffix from the first dot on (what name.split(".", 1) would give)
FirstDotExt(p) ==
    LET dots == {i \in 1..Len(p) : p[i] = "."}
    IN  IF dots = {} THEN <<>>
        ELSE LET d == CHOOSE i \in dots : \A j \in dots : i <= j
             IN  SubSeq(p, d, Min(Len(p), d + 3))

\* allowed_extensions in upload_document
allowed_extensions == {ExtPdf, ExtDocx, ExtTxt}

\* an extension test that looks at the first dot of the name
upload_ext_first_dot(filename) == Lower(FirstDotExt(filename))

\* ext = os.path.splitext(file.filename)[1].lower()
upload_ext(filename) == Lower(SplitExt(filename))

\* names a client may upload a file under
UploadNames ==
    {stem \o ext :
        stem \in {<<"h">>, <<>>, <<"h">> \o ExtTxt},
        ext  \in {<<>>, ExtPdf, <<".", "P", "D", "F">>, ExtDocx, ExtTxt, ExtXlsx, <<".">>}}

\* the name NamedTemporaryFile(delete=False, suffix=ext) gives its n-th file
TmpName(n, ext) == <<"t", "m", "p", <<"0", "1", "2", "3", "4">>[n + 1]>> \o ext

\* ids Chroma assigns to the chunks of the n-th temp file
UploadChunkId(n, k) ==
    << <<"u11", "u12">>, <<"u21", "u22">>, <<"u31", "u32">>, <<"u41", "u42">> >>[n][k]

\* what the environment does during one upload: whether the temp file can be
\* created, whether the copy succeeds, whether the loader succeeds, how many
\* chunks the splitter makes, whether the insert succeeds
UploadOutcomes ==
    {o \in [create_ok : BOOLEAN, copy_ok : BOOLEAN, load_ok : BOOLEAN,
            chunks : 0..2, add_ok : BOOLEAN] :
        \* a step that is not reached has no outcome of its own
        /\ ~o.create_ok => ~o.copy_ok
        /\ ~o.copy_ok => ~o.load_ok
        /\ ~o.load_ok => o.chunks = 0
        /\ o.chunks = 0 => ~o.add_ok}

\* DocumentIngestor.ingest(tmp_path) for a file that loads: the chunks, each
\* with metadata source = the path's name and file_type = its extension
ingest_chunks(n, tmp_name, ext, count) ==
    {[id |-> UploadChunkId(n, k), page_content |-> "uploaded text",
      metadata |-> {<<"source", tmp_name>>, <<"file_type", ext>>}] : k \in 1..count}

IdleUpload == [filename |-> <<>>, response |-> None]

\* the response of upload_document: a status, the detail of an HTTPException,
\* chunks_created of an UploadResponse, and the exception that escaped the
\* handler, if one did
UploadResult(status, detail, chunks_created, escaped) ==
    Some([status |-> status, detail |-> detail, chunks_created |-> chunks_created,
          escaped |-> escaped])

\* POST /upload: upload_document(file) from entry to response.  The handler
\* has no await, so it runs without interleaving.
UploadDocument(filename, o) ==
    LET ext  == upload_ext(filename)
        n    == tmp_seq + 1
        name == TmpName(n, ext)
    IN
    /\ http.pc \in {"idle", "responded"}
    /\ tmp_seq < MaxUploads
    /\ IF ext \notin allowed_extensions
       THEN \* raise HTTPException(400) before the try statement
            /\ up' = [filename |-> filename,
                      response |-> UploadResult(400, "Unsupported file type", 0, "")]
            /\ UNCHANGED <<index, tmp_files, tmp_seq>>
       ELSE IF ~o.create_ok
       THEN \* NamedTemporaryFile raises: except -> HTTPException(500); in the
            \* finally clause tmp_path is unbound, so UnboundLocalError escapes
            /\ up' = [filename |-> filename,
                      response |-> UploadResult(500, "", 0, "UnboundLocalError")]
            /\ UNCHANGED <<index, tmp_files, tmp_seq>>
       ELSE IF ~o.copy_ok
       THEN \* copyfileobj raises inside the with block: the file is closed and
            \* kept (delete=False), tmp_path is still unbound
            /\ up' = [filename |-> filename,
                      response |-> UploadResult(500, "", 0, "UnboundLocalError")]
            /\ tmp_files' = tmp_files \cup {name}
            /\ tmp_seq' = n
            /\ UNCHANGED index
       ELSE IF ~o.load_ok
       THEN \* ingestor.ingest raises: HTTPException(500); finally unlinks
            /\ up' = [filename |-> filename,
                      response |-> UploadResult(500, "LoaderError", 0, "")]
            /\ tmp_files' = tmp_files
            /\ tmp_seq' = n
            /\ UNCHANGED index
       ELSE IF o.chunks > 0 /\ ~o.add_ok
       THEN \* vector_store.add_documents raises
            /\ up' = [filename |-> filename,
                      response |-> UploadResult(500, "IndexError", 0, "")]
            /\ tmp_files' = tmp_files
            /\ tmp_seq' = n
            /\ UNCHANGED index
       ELSE \* add_documents is a no-op for an empty list
            /\ up' = [filename |-> filename,
                      response |-> UploadResult(200, "", o.chunks, "")]
            /\ index' = index \cup ingest_chunks(n, name, ext, o.chunks)
            /\ tmp_files' = tmp_files
            /\ tmp_seq' = n
    /\ UNCHANGED <<settings, PROMPT_VERSIONS, gp, chain, call, log, http, rr>>
    /\ UNCHANGED <<chatVars, ingestVars>>

\* GET /health: health_check()
HealthResponse == [status |-> "healthy", version |-> "1.0.0"]

\* the event loop runs one coroutine at a time; query_policies has no await,
\* so the loop is held from its entry to its response
LoopFree == http.pc # "handling"

\* GET /health is served: the loop must be free to start the handler
HealthCheck ==
    /\ LoopFree
    /\ health' = Some(HealthResponse)
    /\ UNCHANGED <<settings, PROMPT_VERSIONS, gp, chain, index, call, log, http, rr, up,
                   tmp_files, tmp_seq>>
    /\ UNCHANGED <<startup, slack_app, teams_bot, slack, teams, session_history, wcall, wlog, sh>>
    /\ UNCHANGED ingestVars

-----------------------------------------------------------------------------
(* Worker threads: asyncio.to_thread(chain.query, ...) *)

\* the threads the adapters hand a query to, one per adapter
Workers == {"slack", "teams"}

\* asyncio.to_thread(func, *args, **kwargs): the call is handed to a thread
\* of the default executor; the coroutine is suspended until it finishes
to_thread(question, kwargs) ==
    [frame |-> [IdleCall EXCEPT !.pc = "submitted"],
     submitted |-> Some([question |-> question, kwargs |-> kwargs])]

\* what the coroutine of worker w handed to its thread
SubmittedBy(w) == IF w = "slack" THEN slack.submitted ELSE teams.submitted

\* the thread of worker w starts: it calls query with the arguments it was given
WorkerStart(w) ==
    /\ wcall[w].pc = "submitted"
    /\ wcall' = [wcall EXCEPT ![w] = query_call(SubmittedBy(w)[1].question,
                                                SubmittedBy(w)[1].kwargs)]
    /\ wlog' = [wlog EXCEPT ![w] = <<>>]
    /\ UNCHANGED <<settings, PROMPT_VERSIONS, gp, chain, index, call, log, http, rr, up,
                   tmp_files, tmp_seq>>
    /\ UNCHANGED <<startup, slack_app, teams_bot, slack, teams, session_history, health, sh>>
    /\ UNCHANGED ingestVars

\* the parameters of the history-aware query entrypoint
HistoryAwareParameters == {"question", "chat_history"}

\* the call query(question, **kwargs) on a chain whose query also takes
\* chat_history: the pipeline is entered with the question
query_call_history_aware(question, kwargs) ==
    IF \E kv \in kwargs : kv[1] \notin HistoryAwareParameters
    THEN [IdleCall EXCEPT !.pc = "raised", !.raised = "TypeError"]
    ELSE query_enter(question)

\* the thread of worker w starts on a chain with the history-aware query
WorkerStartHistoryAware(w) ==
    /\ wcall[w].pc = "submitted"
    /\ wcall' = [wcall EXCEPT ![w] = query_call_history_aware(SubmittedBy(w)[1].question,
                                                              SubmittedBy(w)[1].kwargs)]
    /\ wlog' = [wlog EXCEPT ![w] = <<>>]
    /\ UNCHANGED <<settings, PROMPT_VERSIONS, gp, chain, index, call, log, http, rr, up,
                   tmp_files, tmp_seq>>
    /\ UNCHANGED <<startup, slack_app, teams_bot, slack, teams, session_history, health, sh>>
    /\ UNCHANGED ingestVars

\* chain.query in the thread of worker w, step 1
WorkerRetrieve(w) ==
    /\ wcall[w].pc = "retrieve"
    /\ \E ret \in Retrievals(settings.top_k_retrieval) :
          wcall' = [wcall EXCEPT ![w] = query_retrieve_in(wcall[w], ret)]
    /\ UNCHANGED <<settings, PROMPT_VERSIONS, gp, chain, index, call, log, http, rr, up,
                   tmp_files, tmp_seq>>
    /\ UNCHANGED <<startup, slack_app, teams_bot, slack, teams, session_history, wlog, health, sh>>
    /\ UNCHANGED ingestVars

\* chain.query in the thread of worker w, steps 2 to 4a
WorkerRerank(w) ==
    /\ wcall[w].pc = "rerank"
    /\ \E pred \in Predictions(Len(wcall[w].retrieved_docs)) :
          wcall' = [wcall EXCEPT ![w] = query_rerank_in(wcall[w], pred)]
    /\ UNCHANGED <<settings, PROMPT_VERSIONS, gp, chain, index, call, log, http, rr, up,
                   tmp_files, tmp_seq>>
    /\ UNCHANGED <<startup, slack_app, teams_bot, slack, teams, session_history, wlog, health, sh>>
    /\ UNCHANGED ingestVars

\* chain.query in the thread of worker w, step 4b to the return
WorkerGenerate(w) ==
    /\ wcall[w].pc = "generate"
    /\ \E out \in LlmOutcomes :
          LET c == query_generate_in(wcall[w], out)
          IN  /\ wcall' = [wcall EXCEPT ![w] = c]
              /\ wlog' = IF out.raises THEN wlog
                         ELSE [wlog EXCEPT
                                  ![w] = Append(@, observability_record(c.result[1]))]
    /\ UNCHANGED <<settings, PROMPT_VERSIONS, gp, chain, index, call, log, http, rr, up,
                   tmp_files, tmp_seq>>
    /\ UNCHANGED <<startup, slack_app, teams_bot, slack, teams, session_history, health, sh>>
    /\ UNCHANGED ingestVars

-----------------------------------------------------------------------------
(* src/src/slack/bot.py *)

\* the process before src.slack.bot is imported, and once it is
NotStarted(env) == [pc |-> "start", raised |-> "", socket_task |-> FALSE, env |-> env]
Imported(env) == [pc |-> "imported", raised |-> "", socket_task |-> FALSE, env |-> env]

\* the module-level try block: slack_app is built when both settings are
\* truthy; any exception, an AttributeError of settings included, is logged
\* and leaves slack_app and app_handler None
slack_module_init(env) ==
    LET token  == settings_getattr("slack_bot_token", env)
        secret == settings_getattr("slack_signing_secret", env)
    IN  IF token.raised # "" THEN FALSE
        ELSE IF ~token.value THEN FALSE
        ELSE IF secret.raised # "" THEN FALSE
        ELSE secret.value

\* import src.slack.bot (server.py imports it at its top)
ImportSlackBot ==
    /\ startup.pc = "start"
    /\ slack_app' = slack_module_init(startup.env)
    /\ startup' = [startup EXCEPT !.pc = "imported"]
    /\ UNCHANGED <<settings, PROMPT_VERSIONS, gp, chain, index, call, log, http, rr, up,
                   tmp_files, tmp_seq>>
    /\ UNCHANGED <<teams_bot, slack, teams, session_history, wcall, wlog, health, sh>>
    /\ UNCHANGED ingestVars

\* update_session_history keeps history[-5:]
HistoryCap == 5

\* session_history.get(thread_id, [])
get_session_history(thread_id) == DictGet(session_history, thread_id, <<>>)

\* update_session_history that keeps every turn
update_session_history_unbounded(thread_id, human, ai) ==
    DictPut(session_history, thread_id,
            Append(DictGet(session_history, thread_id, <<>>), <<human, ai>>))

\* update_session_history(thread_id, human, ai): the value of session_history
\* after the call
update_session_history(thread_id, human, ai) ==
    LET history == Append(DictGet(session_history, thread_id, <<>>), <<human, ai>>)
    IN  DictPut(session_history, thread_id, SliceLast(history, HistoryCap))

\* the thread ids, questions and answers of direct session-history calls
ThreadIds == {"t1", "t2", "t3"}
HistoryAnswers == {"generated answer"}

\* no direct session-history call made yet; turns keeps, per thread id,
\* every turn ever appended and calls counts the updates
IdleSh == [op |-> "none", thread_id |-> "", got |-> <<>>, turns |-> {}, calls |-> 0]

\* update_session_history(thread_id, human, ai) called directly
UpdateSessionHistory(thread_id, human, ai) ==
    /\ sh.calls < MaxTurns
    /\ session_history' = update_session_history(thread_id, human, ai)
    /\ sh' = [op |-> "update", thread_id |-> thread_id, got |-> <<>>,
              turns |-> DictPut(sh.turns, thread_id,
                                Append(DictGet(sh.turns, thread_id, <<>>), <<human, ai>>)),
              calls |-> sh.calls + 1]
    /\ UNCHANGED <<settings, PROMPT_VERSIONS, gp, chain, index, call, log, http, rr, up,
                   tmp_files, tmp_seq>>
    /\ UNCHANGED <<startup, slack_app, teams_bot, slack, teams, wcall, wlog, health>>
    /\ UNCHANGED ingestVars

\* get_session_history(thread_id) called directly
GetSessionHistory(thread_id) ==
    /\ sh' = [sh EXCEPT !.op = "get", !.thread_id = thread_id,
                        !.got = get_session_history(thread_id)]
    /\ UNCHANGED <<settings, PROMPT_VERSIONS, gp, chain, index, call, log, http, rr, up,
                   tmp_files, tmp_seq>>
    /\ UNCHANGED <<startup, slack_app, teams_bot, slack, teams, session_history, wcall, wlog,
                   health>>
    /\ UNCHANGED ingestVars

\* the events Slack delivers: mentions (in a thread, or starting one) and
\* message events (a DM, or a message in a channel)
SlackEvents ==
    { [type |-> "app_mention", channel_type |-> "channel", text |-> "q1",
       ts |-> "t2", thread_ts |-> Some("t1")],
      [type |-> "app_mention", channel_type |-> "channel", text |-> "q2",
       ts |-> "t2", thread_ts |-> None],
      [type |-> "message", channel_type |-> "im", text |-> "q1",
       ts |-> "t1", thread_ts |-> None],
      [type |-> "message", channel_type |-> "channel", text |-> "q2",
       ts |-> "t1", thread_ts |-> None] }

\* thread_id = event.get("thread_ts", event["ts"])
slack_thread_id(event) == IF event.thread_ts # None THEN event.thread_ts[1] ELSE event.ts

\* a message in the Slack thread: what say() posted or chat_update() put in
\* its place
SlackMessage(kind, text, blocks) == [kind |-> kind, text |-> text, blocks |-> blocks]

\* the loop over result.sources from element i on: one context element per
\* distinct "document (Page page)" string
RECURSIVE slack_context_from(_, _, _, _)
slack_context_from(sources, i, seen_sources, context_elements) ==
    IF i > Len(sources) THEN context_elements
    ELSE LET src_str == <<sources[i].document, sources[i].page>>
         IN  IF src_str \notin seen_sources
             THEN slack_context_from(sources, i + 1, seen_sources \cup {src_str},
                                     Append(context_elements, src_str))
             ELSE slack_context_from(sources, i + 1, seen_sources, context_elements)

\* the Block Kit blocks of an answer: a section with the answer and, if the
\* result has sources, a divider and a context block of citations
slack_blocks(result) ==
    LET context_elements == slack_context_from(result.sources, 1, {}, <<>>)
    IN  <<[type |-> "section", text |-> result.answer, elements |-> <<>>]>> \o
        (IF result.sources # <<>> /\ context_elements # <<>>
         THEN <<[type |-> "divider", text |-> "", elements |-> <<>>],
                [type |-> "context", text |-> "", elements |-> context_elements]>>
         ELSE <<>>)

IdleSlack ==
    [pc |-> "idle", event |-> None, thread_id |-> "", message |-> None,
     submitted |-> None, returned |-> ""]

\* handle_app_mentions(event, say) up to its await of the worker thread: the
\* startup notice when _rag_chain is unset (init_slack_bot binds it to the
\* global chain), else the placeholder message and the hand-over of
\* query(text, chat_history=history) to a thread
handle_app_mentions_enter(event) ==
    LET thread_id == slack_thread_id(event)
    IN  IF chain = None
        THEN [slack |-> [IdleSlack EXCEPT
                            !.pc = "done", !.event = Some(event), !.thread_id = thread_id,
                            !.message = Some(SlackMessage("starting",
                                "System is starting up, please try again in a moment.",
                                <<>>)),
                            !.returned = "normal"],
              frame |-> IdleCall]
        ELSE LET history == get_session_history(thread_id)
                 t == to_thread(event.text, {<<"chat_history", history>>})
             IN  [slack |-> [IdleSlack EXCEPT
                                !.pc = "waiting", !.event = Some(event),
                                !.thread_id = thread_id,
                                !.message = Some(SlackMessage("placeholder",
                                    ":thinking_face: Searching HR policies...", <<>>)),
                                !.submitted = t.submitted],
                  frame |-> t.frame]

\* handle_app_mentions that records a turn in the except clause as well
handle_app_mentions_resume_always_update(s, frame) ==
    IF frame.pc = "returned"
    THEN LET result == frame.result[1]
         IN  [slack |-> [s EXCEPT !.pc = "done", !.returned = "normal",
                                  !.message = Some(SlackMessage("answer", result.answer,
                                                                slack_blocks(result)))],
              session_history |-> update_session_history(s.thread_id, s.event[1].text,
                                                         result.answer)]
    ELSE [slack |-> [s EXCEPT !.pc = "done", !.returned = "normal",
                              !.message = Some(SlackMessage("error", frame.raised, <<>>))],
          session_history |-> update_session_history(s.thread_id, s.event[1].text,
                                                     frame.raised)]

\* handle_app_mentions after the await: the history update and the answer in
\* the place of the placeholder, or, in the except clause, the error notice
handle_app_mentions_resume(s, frame) ==
    IF frame.pc = "returned"
    THEN LET result == frame.result[1]
         IN  [slack |-> [s EXCEPT !.pc = "done", !.returned = "normal",
                                  !.message = Some(SlackMessage("answer", result.answer,
                                                                slack_blocks(result)))],
              session_history |-> update_session_history(s.thread_id, s.event[1].text,
                                                         result.answer)]
    ELSE [slack |-> [s EXCEPT !.pc = "done", !.returned = "normal",
                              !.message = Some(SlackMessage("error", frame.raised, <<>>))],
          session_history |-> session_history]

\* an app_mention event arrives: handle_app_mentions starts
SlackAppMention(event) ==
    /\ slack_app
    /\ LoopFree
    /\ event.type = "app_mention"
    /\ slack.pc \in {"idle", "done"}
    /\ LET e == handle_app_mentions_enter(event)
       IN  /\ slack' = e.slack
           /\ wcall' = [wcall EXCEPT !["slack"] = e.frame]
    /\ UNCHANGED <<settings, PROMPT_VERSIONS, gp, chain, index, call, log, http, rr, up,
                   tmp_files, tmp_seq>>
    /\ UNCHANGED <<startup, slack_app, teams_bot, teams, session_history, wlog, health, sh>>
    /\ UNCHANGED ingestVars

\* a message event arrives: handle_message_events returns at once unless the
\* message is a DM, and then runs handle_app_mentions
SlackMessageEvent(event) ==
    /\ slack_app
    /\ LoopFree
    /\ event.type = "message"
    /\ slack.pc \in {"idle", "done"}
    /\ IF event.channel_type # "im"
       THEN /\ slack' = [IdleSlack EXCEPT !.pc = "done", !.event = Some(event),
                                          !.returned = "normal"]
            /\ wcall' = [wcall EXCEPT !["slack"] = IdleCall]
       ELSE LET e == handle_app_mentions_enter(event)
            IN  /\ slack' = e.slack
                /\ wcall' = [wcall EXCEPT !["slack"] = e.frame]
    /\ UNCHANGED <<settings, PROMPT_VERSIONS, gp, chain, index, call, log, http, rr, up,
                   tmp_files, tmp_seq>>
    /\ UNCHANGED <<startup, slack_app, teams_bot, teams, session_history, wlog, health, sh>>
    /\ UNCHANGED ingestVars

\* the worker thread has finished and the loop is free: handle_app_mentions
\* goes on after its await
SlackResume ==
    /\ LoopFree
    /\ slack.pc = "waiting"
    /\ wcall["slack"].pc \in {"returned", "raised"}
    /\ LET r == handle_app_mentions_resume(slack, wcall["slack"])
       IN  /\ slack' = r.slack
           /\ session_history' = r.session_history
    /\ UNCHANGED <<settings, PROMPT_VERSIONS, gp, chain, index, call, log, http, rr, up,
                   tmp_files, tmp_seq>>
    /\ UNCHANGED <<startup, slack_app, teams_bot, teams, wcall, wlog, health, sh>>
    /\ UNCHANGED ingestVars

-----------------------------------------------------------------------------
(* src/src/teams/bot.py and POST /api/messages *)

\* the text of the message activities Teams delivers; "" is an activity
\* without text
TeamsTexts == {""} \cup Questions

TeamsApology == "Sorry, I encountered an error while processing your request."

\* the "Sources" activity: one line per entry of result.sources
teams_sources_text(sources) ==
    [i \in 1..Len(sources) |-> <<sources[i].document, sources[i].page>>]

\* an activity sent with turn_context.send_activity
TeamsActivity(type, text, lines) == [type |-> type, text |-> text, lines |-> lines]

IdleTeams ==
    [pc |-> "idle", text |-> "", sent |-> <<>>, submitted |-> None, returned |-> "",
     response |-> None]

\* TeamsBot.on_message_activity up to its await of the worker thread: nothing
\* for an activity without text, else the typing activity and the hand-over
\* of query(text) to a thread
on_message_activity_enter(text) ==
    IF text = ""
    THEN [teams |-> [IdleTeams EXCEPT !.pc = "returned", !.returned = "normal"],
          frame |-> IdleCall]
    ELSE LET t == to_thread(text, {})
         IN  [teams |-> [IdleTeams EXCEPT
                            !.pc = "waiting", !.text = text,
                            !.sent = <<TeamsActivity("typing", "", <<>>)>>,
                            !.submitted = t.submitted],
              frame |-> t.frame]

\* on_message_activity without its try statement: an exception of the
\* pipeline call leaves the handler
on_message_activity_no_except(t, frame) ==
    IF frame.pc = "returned"
    THEN LET result == frame.result[1]
         IN  [t EXCEPT !.pc = "returned", !.returned = "normal",
                       !.sent = @ \o <<TeamsActivity("message", result.answer, <<>>)>>
                                  \o (IF result.sources # <<>>
                                      THEN <<TeamsActivity("sources", "",
                                                teams_sources_text(result.sources))>>
                                      ELSE <<>>)]
    ELSE [t EXCEPT !.pc = "returned", !.returned = frame.raised]

\* on_message_activity after the await: the answer and, if there are any,
\* the sources; in the except clause, the apology
on_message_activity_resume(t, frame) ==
    IF frame.pc = "returned"
    THEN LET result == frame.result[1]
         IN  [t EXCEPT !.pc = "returned", !.returned = "normal",
                       !.sent = @ \o <<TeamsActivity("message", result.answer, <<>>)>>
                                  \o (IF result.sources # <<>>
                                      THEN <<TeamsActivity("sources", "",
                                                teams_sources_text(result.sources))>>
                                      ELSE <<>>)]
    ELSE [t EXCEPT !.pc = "returned", !.returned = "normal",
                   !.sent = Append(@, TeamsActivity("message", TeamsApology, <<>>))]

\* messages(req) once process_activity has returned or raised: the body of
\* the adapter's response (none for a message activity), or 500
messages_respond(t) ==
    [t EXCEPT !.pc = "done",
              !.response = IF t.returned = "normal" THEN Some([status |-> 200, detail |-> ""])
                           ELSE Some([status |-> 500,
                                      detail |-> "Internal Server Error"])]

\* POST /api/messages arrives: messages(req) rejects the request when the
\* adapter is not configured (503), when it is not JSON (415) and when
\* process_activity fails to authenticate it (500); else the bot's
\* on_message_activity runs up to its await
TeamsMessages(text, json, auth_ok) ==
    /\ LoopFree
    /\ teams.pc \in {"idle", "done"}
    /\ IF teams_bot = None
       THEN /\ teams' = [IdleTeams EXCEPT !.pc = "done",
                            !.response = Some([status |-> 503,
                                               detail |-> "Teams Bot not configured."])]
            /\ wcall' = [wcall EXCEPT !["teams"] = IdleCall]
       ELSE IF ~json
       THEN /\ teams' = [IdleTeams EXCEPT !.pc = "done",
                            !.response = Some([status |-> 415,
                                               detail |-> "Unsupported Media Type"])]
            /\ wcall' = [wcall EXCEPT !["teams"] = IdleCall]
       ELSE IF ~auth_ok
       THEN /\ teams' = messages_respond([IdleTeams EXCEPT !.returned = "PermissionError"])
            /\ wcall' = [wcall EXCEPT !["teams"] = IdleCall]
       ELSE LET e == on_message_activity_enter(text)
            IN  /\ teams' = IF e.teams.pc = "returned" THEN messages_respond(e.teams)
                            ELSE e.teams
                /\ wcall' = [wcall EXCEPT !["teams"] = e.frame]
    /\ UNCHANGED <<settings, PROMPT_VERSIONS, gp, chain, index, call, log, http, rr, up,
                   tmp_files, tmp_seq>>
    /\ UNCHANGED <<startup, slack_app, teams_bot, slack, session_history, wlog, health, sh>>
    /\ UNCHANGED ingestVars

\* the worker thread has finished and the loop is free: on_message_activity
\* goes on after its await, and messages(req) responds
TeamsResume ==
    /\ LoopFree
    /\ teams.pc = "waiting"
    /\ wcall["teams"].pc \in {"returned", "raised"}
    /\ teams' = messages_respond(on_message_activity_resume(teams, wcall["teams"]))
    /\ UNCHANGED <<settings, PROMPT_VERSIONS, gp, chain, index, call, log, http, rr, up,
                   tmp_files, tmp_seq>>
    /\ UNCHANGED <<startup, slack_app, teams_bot, slack, session_history, wcall, wlog, health, sh>>
    /\ UNCHANGED ingestVars

-----------------------------------------------------------------------------
(* Direct use of the prompt registry and of the chain constructor *)

NoGp == [op |-> "none", arg |-> "", out |-> [raised |-> "", value |-> None,
                                            version |-> "", available |-> <<>>],
         listed |-> <<>>, rendered |-> [raised |-> "", value |-> <<>>], kwargs |-> {}]

\* a caller evaluates get_prompt(version)
GetPrompt(version) ==
    /\ gp' = [NoGp EXCEPT !.op = "get_prompt", !.arg = version, !.out = get_prompt(version)]
    /\ PROMPT_VERSIONS' = PROMPT_VERSIONS
    /\ UNCHANGED <<settings, chain, index, call, log, http, rr, up, tmp_files, tmp_seq>>
    /\ UNCHANGED <<chatVars, ingestVars>>

\* GET /prompts, or a caller evaluates list_prompt_versions()
ListPromptVersions ==
    /\ gp' = [NoGp EXCEPT !.op = "list_prompt_versions", !.listed = list_prompt_versions]
    /\ PROMPT_VERSIONS' = PROMPT_VERSIONS
    /\ UNCHANGED <<settings, chain, index, call, log, http, rr, up, tmp_files, tmp_seq>>
    /\ UNCHANGED <<chatVars, ingestVars>>

\* keyword arguments a caller may pass to format_messages
KwargsChoices ==
    {c \cup q \cup h :
        c \in {{}} \cup {{<<"context", _build_context(d)>>} : d \in DistinctSeqs(PoolChunks, 1)},
        q \in {{}} \cup {{<<"question", x>>} : x \in Questions},
        h \in {{}, {<<"history", "earlier turn">>}}}

\* the template got from get_prompt is rendered: prompt.format_messages(**kwargs)
FormatMessages(kwargs) ==
    /\ gp.op = "get_prompt"
    /\ gp.out.raised = ""
    /\ gp' = [gp EXCEPT !.op = "format_messages", !.kwargs = kwargs,
                        !.rendered = format_messages(gp.out.value[1], kwargs)]
    /\ UNCHANGED <<settings, PROMPT_VERSIONS, chain, index, call, log, http, rr, up,
                   tmp_files, tmp_seq>>
    /\ UNCHANGED <<chatVars, ingestVars>>

\* a caller evaluates HRPolicyChain(prompt_version=version)
ConstructChain(version) ==
    /\ gp' = [NoGp EXCEPT !.op = "HRPolicyChain", !.arg = version,
                          !.out = get_prompt(version)]
    /\ chain' = IF HRPolicyChainInit(version).raised = ""
                THEN HRPolicyChainInit(version).value ELSE chain
    /\ UNCHANGED <<settings, PROMPT_VERSIONS, index, call, log, http, rr, up,
                   tmp_files, tmp_seq>>
    /\ UNCHANGED <<chatVars, ingestVars>>

-----------------------------------------------------------------------------
(* Direct use of the reranker *)

NoOutcome == [raised |-> "", value |-> <<>>, predict_calls |-> 0]

\* pred is what the model answers in this call, if it is asked
IdleRerank == [pc |-> "idle", query |-> "", documents |-> <<>>, top_k |-> None,
               pred |-> [raises |-> FALSE, scores |-> <<>>], out |-> NoOutcome]

\* a caller evaluates reranker.rerank(query, documents, top_k)
RerankCall ==
    /\ rr.pc = "ready"
    /\ \E pred \in Predictions(Len(rr.documents)) :
          rr' = [rr EXCEPT !.pc = "done", !.pred = pred,
                           !.out = rerank(rr.query, rr.documents, rr.top_k, pred)]
    /\ UNCHANGED <<settings, PROMPT_VERSIONS, gp, chain, index, call, log, http, up,
                   tmp_files, tmp_seq>>
    /\ UNCHANGED <<chatVars, ingestVars>>

-----------------------------------------------------------------------------
(* Specifications *)

\* the state of the process once its modules are imported
ImportedState ==
    /\ PROMPT_VERSIONS = RegistryAfterImport
    /\ gp = NoGp
    /\ chain = None
    /\ call = IdleCall
    /\ log = <<>>
    /\ http = IdleHttp
    /\ up = IdleUpload
    /\ tmp_files = {}
    /\ tmp_seq = 0
    /\ slack_app = FALSE
    /\ teams_bot = None
    /\ slack = IdleSlack
    /\ teams = IdleTeams
    /\ session_history = {}
    /\ wcall = [w \in Workers |-> IdleCall]
    /\ wlog = [w \in Workers |-> <<>>]
    /\ health = None
    /\ sh = IdleSh
    /\ startup = Imported({})
    /\ fs = NoFs
    /\ ingestor = None
    /\ ing = IdleIng

\* the server: startup, then POST /query requests over a persisted collection
Init ==
    /\ ImportedState
    /\ settings \in SettingsChoices
    /\ index \in {c \in SUBSET PoolChunks : Cardinality(c) <= MaxIndex}
    /\ rr = IdleRerank

Next ==
    \/ Lifespan
    \/ \E q \in Questions, n \in QuestionLengths,
          v \in {None} \cup {Some(x) : x \in {"v1.0", "v2.0", "v99.0"}} :
            HttpQueryReceive(q, n, v)
    \/ ChainRetrieve
    \/ ChainRerank
    \/ ChainGenerate
    \/ HttpQueryRespond

Spec == Init /\ [][Next]_vars

\* the reranker called directly with every candidate list and top_k
InitRerank ==
    /\ ImportedState
    /\ settings \in SettingsChoices
    /\ index = {}
    /\ rr \in {[IdleRerank EXCEPT !.pc = "ready", !.query = q, !.documents = d, !.top_k = k] :
                  q \in Questions, d \in DistinctSeqs(PoolChunks, MaxCand), k \in TopKs}

NextRerank == RerankCall

SpecRerank == InitRerank /\ [][NextRerank]_vars

\* the prompt registry and the chain constructor called directly
InitPrompts ==
    /\ ImportedState
    /\ settings = DefaultSettings
    /\ index = {}
    /\ rr = IdleRerank

NextPrompts ==
    \/ \E v \in VersionInputs : GetPrompt(v)
    \/ ListPromptVersions
    \/ \E kw \in KwargsChoices : FormatMessages(kw)
    \/ \E v \in VersionInputs : ConstructChain(v)

SpecPrompts == InitPrompts /\ [][NextPrompts]_vars

\* the server receiving uploads
InitUpload ==
    /\ ImportedState
    /\ settings = DefaultSettings
    /\ index \in {c \in SUBSET PoolChunks : Cardinality(c) <= 1}
    /\ rr = IdleRerank

NextUpload == \E f \in UploadNames, o \in UploadOutcomes : UploadDocument(f, o)

SpecUpload == InitUpload /\ [][NextUpload]_vars

\* the collections the served process holds in the runs with chat adapters
ChatCollections ==
    {{}} \cup {{c} : c \in {d \in PoolChunks : d.id \in {"c1", "c4"}}}

\* the server after startup in a deployment where the Slack app was built at
\* import and lifespan built the Teams bot around the global chain: it
\* serves POST /query, GET /health, Slack events and Teams activities
InitChat ==
    /\ PROMPT_VERSIONS = RegistryAfterImport
    /\ gp = NoGp
    /\ settings = DefaultSettings
    /\ chain = HRPolicyChainInit("v2.0").value
    /\ ingestor = DocumentIngestorInit(None, None).value
    /\ index \in ChatCollections
    /\ call = IdleCall
    /\ log = <<>>
    /\ http = IdleHttp
    /\ rr = IdleRerank
    /\ up = IdleUpload
    /\ tmp_files = {}
    /\ tmp_seq = 0
    /\ slack_app = TRUE
    /\ teams_bot = Some([chain |-> chain[1]])
    /\ slack = IdleSlack
    /\ teams = IdleTeams
    /\ session_history = {}
    /\ wcall = [w \in Workers |-> IdleCall]
    /\ wlog = [w \in Workers |-> <<>>]
    /\ health = None
    /\ sh = IdleSh
    /\ startup = [pc |-> "serving", raised |-> "", socket_task |-> TRUE,
                  env |-> ChatSettingNames]
    /\ fs = NoFs
    /\ ing = IdleIng

NextChat ==
    \/ \E q \in Questions : HttpQueryReceive(q, MinQuestionLength, None)
    \/ ChainRetrieve
    \/ ChainRerank
    \/ ChainGenerate
    \/ HttpQueryRespond
    \/ HealthCheck
    \/ \E e \in SlackEvents : SlackAppMention(e)
    \/ \E e \in SlackEvents : SlackMessageEvent(e)
    \/ SlackResume
    \/ \E t \in TeamsTexts, json \in BOOLEAN, auth_ok \in BOOLEAN :
          TeamsMessages(t, json, auth_ok)
    \/ TeamsResume
    \/ \E w \in Workers : WorkerStart(w)
    \/ \E w \in Workers : WorkerRetrieve(w)
    \/ \E w \in Workers : WorkerRerank(w)
    \/ \E w \in Workers : WorkerGenerate(w)

SpecChat == InitChat /\ [][NextChat]_vars

\* Loading: an ingestor built with the configured defaults is pointed at a
\* path that is missing, a plain file, or a directory of files
InitLoad ==
    /\ PROMPT_VERSIONS = RegistryAfterImport
    /\ gp = NoGp
    /\ chain = None
    /\ call = IdleCall
    /\ log = <<>>
    /\ http = IdleHttp
    /\ up = IdleUpload
    /\ tmp_files = {}
    /\ tmp_seq = 0
    /\ slack_app = FALSE
    /\ teams_bot = None
    /\ slack = IdleSlack
    /\ teams = IdleTeams
    /\ session_history = {}
    /\ wcall = [w \in Workers |-> IdleCall]
    /\ wlog = [w \in Workers |-> <<>>]
    /\ health = None
    /\ sh = IdleSh
    /\ startup = Imported({})
    /\ settings = DefaultSettings
    /\ index = {}
    /\ rr = IdleRerank
    /\ fs \in Directories
    /\ ingestor = DocumentIngestorInit(None, None).value
    /\ ing = [IdleIng EXCEPT !.ctor = Some(<<None, None>>)]

NextLoad ==
    \/ \E name \in PathNames : LoadDocument(name)
    \/ LoadDirectory

SpecLoad == InitLoad /\ [][NextLoad]_vars

\* the chunking settings a deployment may configure
IngestSettingsChoices ==
    {[DefaultSettings EXCEPT !.chunk_size = s, !.chunk_overlap = o] :
        s \in {2, DefaultChunkSize}, o \in {1, DefaultChunkOverlap}}

\* Chunking: ingestors are built with and without explicit arguments and
\* split documents
InitIngest ==
    /\ ImportedState
    /\ settings \in IngestSettingsChoices
    /\ index = {}
    /\ rr = IdleRerank

NextIngest ==
    \/ \E chunk_size \in ChunkArgs, chunk_overlap \in ChunkArgs :
          ConstructIngestor(chunk_size, chunk_overlap)
    \/ \E L \in 0..MaxDocLen : SplitDocuments(L)

SpecIngest == InitIngest /\ [][NextIngest]_vars

\* Session history: the Slack module is imported and its two history
\* functions are called for any thread ids
InitHistory ==
    /\ ImportedState
    /\ settings = DefaultSettings
    /\ index = {}
    /\ rr = IdleRerank

NextHistory ==
    \/ \E thread_id \in ThreadIds, human \in Questions, ai \in HistoryAnswers :
          UpdateSessionHistory(thread_id, human, ai)
    \/ \E thread_id \in ThreadIds : GetSessionHistory(thread_id)

SpecHistory == InitHistory /\ [][NextHistory]_vars

\* Process start: the Slack module is imported and lifespan runs, under
\* every set of chat-platform variables the environment may define
InitStartup ==
    /\ PROMPT_VERSIONS = RegistryAfterImport
    /\ gp = NoGp
    /\ chain = None
    /\ call = IdleCall
    /\ log = <<>>
    /\ http = IdleHttp
    /\ up = IdleUpload
    /\ tmp_files = {}
    /\ tmp_seq = 0
    /\ slack_app = FALSE
    /\ teams_bot = None
    /\ slack = IdleSlack
    /\ teams = IdleTeams
    /\ session_history = {}
    /\ wcall = [w \in Workers |-> IdleCall]
    /\ wlog = [w \in Workers |-> <<>>]
    /\ health = None
    /\ sh = IdleSh
    /\ fs = NoFs
    /\ ingestor = None
    /\ ing = IdleIng
    /\ settings \in SettingsChoices
    /\ index = {}
    /\ rr = IdleRerank
    /\ startup \in {NotStarted(env) : env \in SUBSET ChatSettingNames}

NextStartup ==
    \/ ImportSlackBot
    \/ Lifespan

SpecStartup == InitStartup /\ [][NextStartup]_vars

\* Slack alone: events arrive before and after init_slack_bot has bound the
\* chain, and the chain's query is the one of chain.py or the history-aware
\* one
InitSlack ==
    /\ PROMPT_VERSIONS = RegistryAfterImport
    /\ gp = NoGp
    /\ settings = DefaultSettings
    /\ chain \in {None, HRPolicyChainInit("v2.0").value}
    /\ ingestor = DocumentIngestorInit(None, None).value
    /\ index \in ChatCollections
    /\ call = IdleCall
    /\ log = <<>>
    /\ http = IdleHttp
    /\ rr = IdleRerank
    /\ up = IdleUpload
    /\ tmp_files = {}
    /\ tmp_seq = 0
    /\ slack_app = TRUE
    /\ teams_bot = None
    /\ slack = IdleSlack
    /\ teams = IdleTeams
    /\ session_history = {}
    /\ wcall = [w \in Workers |-> IdleCall]
    /\ wlog = [w \in Workers |-> <<>>]
    /\ health = None
    /\ sh = IdleSh
    /\ startup = [pc |-> "serving", raised |-> "", socket_task |-> TRUE,
                  env |-> ChatSettingNames]
    /\ fs = NoFs
    /\ ing = IdleIng

NextSlack ==
    \/ \E event \in SlackEvents : SlackAppMention(event)
    \/ \E event \in SlackEvents : SlackMessageEvent(event)
    \/ SlackResume
    \/ \E w \in {"slack"} : WorkerStart(w)
    \/ \E w \in {"slack"} : WorkerStartHistoryAware(w)
    \/ \E w \in {"slack"} : WorkerRetrieve(w)
    \/ \E w \in {"slack"} : WorkerRerank(w)
    \/ \E w \in {"slack"} : WorkerGenerate(w)

SpecSlack == InitSlack /\ [][NextSlack]_vars

-----------------------------------------------------------------------------
(* Properties *)

\* the source name a chunk is cited under
SourceNameOf(doc) == DictGet(doc.metadata, "source", UnknownSource)

\* position of the first chunk of docs cited under name
FirstOccurrence(docs, name) ==
    CHOOSE i \in 1..Len(docs) :
        /\ SourceNameOf(docs[i]) = name
        /\ \A j \in 1..(i - 1) : SourceNameOf(docs[j]) # name

\* position of the candidate with the given id in the list handed to rerank
PositionOf(documents, id) == CHOOSE i \in 1..Len(documents) : documents[i].id = id

\* the index query of the invocation in progress returned, and returned nothing
RetrievedNothing ==
    /\ call.n_index >= 1
    /\ call.raised # "IndexUnreachable"
    /\ call.retrieved_docs = <<>>

\* C1: whenever the index query of HRPolicyChain.query has returned zero
\* chunks, the invocation has returned (not raised) a QueryResult with the
\* fixed fallback answer, no sources, and tokens_used, chunks_retrieved and
\* chunks_after_rerank all 0; this for every question.
C1_NoKnowledgeFallback ==
    RetrievedNothing =>
        /\ call.pc = "returned"
        /\ call.raised = ""
        /\ call.result # None
        /\ call.result[1].answer = FallbackAnswer
        /\ call.result[1].sources = <<>>
        /\ call.result[1].tokens_used = 0
        /\ call.result[1].chunks_retrieved = 0
        /\ call.result[1].chunks_after_rerank = 0

\* C1 witness: a query for question "q2" over an empty collection has returned
\* the fallback and the HTTP layer has answered 200 with it
C1_Witness ==
    /\ RetrievedNothing
    /\ call.question = "q2"
    /\ call.pc = "returned"
    /\ http.pc = "responded"
    /\ http.response[1].status = 200
    /\ http.response[1].answer = FallbackAnswer

\* C2: the sources list built from the reranked chunks has no two entries
\* with the same document; it has exactly one entry per distinct source name
\* of the reranked chunks, in order of first occurrence, and each entry's page
\* and file_type are those of the first chunk of that document.  The
\* QueryResult returned carries that list.
C2_SourcesDeduplicated ==
    LET docs == call.reranked_docs
        src  == call.sources
    IN  /\ \A i, j \in 1..Len(src) : i # j => src[i].document # src[j].document
        /\ {src[i].document : i \in 1..Len(src)} = {SourceNameOf(docs[k]) : k \in 1..Len(docs)}
        /\ \A i, j \in 1..Len(src) :
              i < j => FirstOccurrence(docs, src[i].document)
                         < FirstOccurrence(docs, src[j].document)
        /\ \A i \in 1..Len(src) :
              LET f == docs[FirstOccurrence(docs, src[i].document)]
              IN  /\ src[i].page = DictGet(f.metadata, "page", "N/A")
                  /\ src[i].file_type = DictGet(f.metadata, "file_type", UnknownType)
        /\ call.pc = "returned" => call.result[1].sources = src

\* C2 witness: three chunks were reranked, two of them of the same document
\* with its page-2 chunk ranked before its page-1 chunk; the result cites two
\* documents and the page of the higher-ranked chunk
C2_Witness ==
    /\ call.pc = "returned"
    /\ Len(call.reranked_docs) = 3
    /\ \E i, j \in 1..3 : /\ i < j
                          /\ call.reranked_docs[i].id = "c2"
                          /\ call.reranked_docs[j].id = "c1"
    /\ Len(call.result[1].sources) = 2
    /\ \E i \in 1..2 : /\ call.result[1].sources[i].document = <<"a">> \o ExtPdf
                       /\ call.result[1].sources[i].page = "2"

\* C3: in one HRPolicyChain.query invocation the index query, the reranker and
\* the generation model are each invoked at most once; an invocation in which
\* one of them raised has ended raising that failure, without a QueryResult,
\* with every later step not invoked and no step left to take.
C3_FailFastNoRetry ==
    /\ call.n_index <= 1 /\ call.n_rerank <= 1 /\ call.n_llm <= 1
    /\ call.pc = "rerank" => call.n_index = 1 /\ call.n_rerank = 0 /\ call.n_llm = 0
    /\ call.pc = "generate" => call.n_index = 1 /\ call.n_rerank = 1 /\ call.n_llm = 0
    /\ call.pc = "raised" =>
          /\ call.result = None
          /\ call.raised \in {"IndexUnreachable", "PredictError", "IndexError", "GenerationError"}
          /\ call.raised = "IndexUnreachable" =>
                call.n_index = 1 /\ call.n_rerank = 0 /\ call.n_llm = 0
          /\ call.raised \in {"PredictError", "IndexError"} =>
                call.n_index = 1 /\ call.n_rerank = 1 /\ call.n_llm = 0
          /\ call.raised = "GenerationError" =>
                call.n_index = 1 /\ call.n_rerank = 1 /\ call.n_llm = 1
          /\ ~ENABLED (ChainRetrieve \/ ChainRerank \/ ChainGenerate)
    /\ (http.pc = "responded" /\ call.pc = "raised") =>
          /\ http.response[1].status = 500
          /\ http.response[1].detail = call.raised

\* C3 witness: the reranker raised; the invocation ended raising and the
\* caller answered 500 with that failure
C3_Witness ==
    /\ call.pc = "raised"
    /\ call.raised = "PredictError"
    /\ call.n_rerank = 1
    /\ http.pc = "responded"
    /\ http.response[1].status = 500

\* a direct rerank call has returned normally
RerankReturned == rr.pc = "done" /\ rr.out.raised = ""

\* C4: for a non-empty candidate list, what rerank returns are distinct
\* members of the candidates, each with the score the model gave it, in
\* non-increasing score order, and no candidate left out has a strictly higher
\* score than one returned.
C4_RerankTruncatedPermutation ==
    (RerankReturned /\ rr.documents # <<>>) =>
        LET res == rr.out.value
            ids == {res[i].document.id : i \in 1..Len(res)}
        IN  /\ \A i \in 1..Len(res) : res[i].document \in Range(rr.documents)
            /\ \A i, j \in 1..Len(res) : i # j => res[i].document.id # res[j].document.id
            /\ \A i \in 1..Len(res) :
                  res[i].score = rr.pred.scores[PositionOf(rr.documents, res[i].document.id)]
            /\ \A i, j \in 1..Len(res) : i < j => res[i].score >= res[j].score
            /\ \A k \in 1..Len(rr.documents) :
                  rr.documents[k].id \notin ids =>
                      \A i \in 1..Len(res) : rr.pred.scores[k] <= res[i].score

\* C4 witness: three candidates scored 0, 2, 1 and top_k = 2: two are returned
C4_Witness ==
    /\ RerankReturned
    /\ Len(rr.documents) = 3
    /\ rr.pred.scores = <<0, 2, 1>>
    /\ rr.top_k = Some(2)
    /\ Len(rr.out.value) = 2

\* C5 (as claimed): for every candidate list of n chunks and every top_k >= 0
\* passed by the caller, rerank returns exactly min(top_k, n) entries.
C5_Claimed_LengthIsMinTopK ==
    (RerankReturned /\ rr.top_k # None /\ rr.top_k[1] >= 0) =>
        Len(rr.out.value) = Min(rr.top_k[1], Len(rr.documents))

\* C6: in the list rerank returns, candidates with equal scores keep their
\* original retrieval order, and the i-th entry carries rank i.
C6_StableDenseRanks ==
    RerankReturned =>
        LET res == rr.out.value
        IN  /\ \A i, j \in 1..Len(res) :
                  (i < j /\ res[i].score = res[j].score) =>
                      PositionOf(rr.documents, res[i].document.id)
                        < PositionOf(rr.documents, res[j].document.id)
            /\ \A i \in 1..Len(res) : res[i].rank = i

\* C6 witness: three candidates, the last two with equal scores, all returned
C6_Witness ==
    /\ RerankReturned
    /\ Len(rr.documents) = 3
    /\ rr.pred.scores = <<0, 1, 1>>
    /\ Len(rr.out.value) = 3
    /\ rr.out.value[1].document = rr.documents[2]
    /\ rr.out.value[2].document = rr.documents[3]

\* C7: rerank called with an empty candidate list returns an empty list,
\* raises nothing and does not invoke the scoring model, for every query and
\* every top_k.
C7_EmptyCandidates ==
    (rr.pc = "done" /\ rr.documents = <<>>) =>
        /\ rr.out.raised = ""
        /\ rr.out.value = <<>>
        /\ rr.out.predict_calls = 0

\* C7 witness: rerank("q2", [], top_k=0) has returned
C7_Witness ==
    /\ rr.pc = "done"
    /\ rr.documents = <<>>
    /\ rr.query = "q2"
    /\ rr.top_k = Some(0)
    /\ rr.out.value = <<>>

\* C8: "v1.0" and "v2.0" are registered; get_prompt succeeds for every
\* registered version with a template whose variables are context and
\* question, and that template renders when both are supplied; for every
\* other version string it fails with KeyError listing the available
\* versions; list_prompt_versions gives the registered versions; the registry
\* stays as it was after import.
C8_PromptRegistry ==
    LET keys == RegistryKeys(PROMPT_VERSIONS)
    IN  /\ {"v1.0", "v2.0"} \subseteq Range(keys)
        /\ PROMPT_VERSIONS = RegistryAfterImport
        /\ (gp.op \in {"get_prompt", "format_messages"} /\ gp.arg \in Range(keys)) =>
              /\ gp.out.raised = ""
              /\ gp.out.value # None
              /\ InputVariables(gp.out.value[1]) = {"context", "question"}
        /\ (gp.op = "get_prompt" /\ gp.arg \notin Range(keys)) =>
              /\ gp.out.raised = "KeyError"
              /\ gp.out.value = None
              /\ gp.out.version = gp.arg
              /\ gp.out.available = keys
        /\ (gp.op = "format_messages"
              /\ (\E kv \in gp.kwargs : kv[1] = "context")
              /\ (\E kw \in gp.kwargs : kw[1] = "question")) =>
              /\ gp.rendered.raised = ""
              /\ Len(gp.rendered.value) > 0
        /\ gp.op = "list_prompt_versions" => gp.listed = keys

\* C8 witness: get_prompt("v99.0") failed listing v1.0 and v2.0
C8_Witness ==
    /\ gp.op = "get_prompt"
    /\ gp.arg = "v99.0"
    /\ gp.out.raised = "KeyError"
    /\ gp.out.available = <<"v1.0", "v2.0">>

\* C9 (as claimed): a POST /query request whose prompt_version is not a
\* registered version is rejected with a client error, and the index query,
\* the reranker and the generation model are never invoked for it.
C9_Claimed_UnknownVersionRejected ==
    (http.raw_prompt_version # None
       /\ http.raw_prompt_version[1] \notin Range(list_prompt_versions)
       /\ http.pc # "idle") =>
        /\ http.pc = "responded"
        /\ http.response[1].status \in 400..499
        /\ call.n_index = 0 /\ call.n_rerank = 0 /\ call.n_llm = 0

\* C10: a POST /upload whose file extension, lower-cased, is none of .pdf,
\* .docx, .txt is answered 400 and leaves the temp directory, the count of
\* temp files created and the collection as they were.
C10_BadExtensionRejected ==
    [][ (up'.filename # <<>>
           /\ Lower(SplitExt(up'.filename)) \notin {ExtPdf, ExtDocx, ExtTxt}) =>
            /\ up'.response[1].status = 400
            /\ up'.response[1].escaped = ""
            /\ tmp_files' = tmp_files
            /\ tmp_seq' = tmp_seq
            /\ index' = index
            /\ Cardinality(index') = Cardinality(index) ]_vars

\* C10 witness: after an upload that inserted chunks, h.xlsx was uploaded and
\* answered 400
C10_Witness ==
    /\ up.filename = <<"h">> \o ExtXlsx
    /\ up.response # None
    /\ up.response[1].status = 400
    /\ tmp_seq = 1
    /\ Cardinality(index) >= 2

\* C11: after every POST /upload, whatever its exit path, no temp file made
\* for a request is left in the temp directory, and the clean-up step has not
\* put an exception of its own in the place of the request's outcome.
C11_Claimed_TempStorageCleaned ==
    up.response # None =>
        /\ tmp_files = {}
        /\ up.response[1].escaped = ""

\* C12: whenever an adapter that runs on the event loop has a chain.query in
\* progress (POST /query being handled, the Slack handler or the Teams
\* handler waiting for its query), the event loop can start serving another
\* request: GET /health is enabled.
C12_Claimed_QueryOffTheEventLoop ==
    (\/ http.pc = "handling"
     \/ slack.pc = "waiting"
     \/ teams.pc = "waiting") => ENABLED HealthCheck

\* the exceptions HRPolicyChain.query lets out of a pipeline stage
PipelineErrors == {"IndexUnreachable", "PredictError", "IndexError", "GenerationError"}

\* C13: when the pipeline call made for a Slack or Teams message raises, the
\* handler ends that message by showing the user an error (Slack: the error
\* notice in the place of the placeholder; Teams: the apology, and the turn
\* answered 200), returns normally, and leaves the adapter as it was: the
\* chain, the bot objects and the session history are unchanged and the
\* next event or activity can be taken as soon as the loop is free.
C13_PipelineErrorsReported ==
    /\ [][
            /\ (slack.pc = "waiting" /\ slack'.pc = "done" /\ wcall["slack"].pc = "raised")
               => (/\ slack'.message =
                        Some(SlackMessage("error", wcall["slack"].raised, <<>>))
                   /\ slack'.event = slack.event
                   /\ slack'.returned = "normal"
                   /\ <<slack_app, teams_bot, chain, session_history>>' =
                         <<slack_app, teams_bot, chain, session_history>>)
            /\ (teams.pc = "waiting" /\ teams'.pc = "done" /\ wcall["teams"].pc = "raised")
               => (/\ teams'.sent =
                        Append(teams.sent, TeamsActivity("message", TeamsApology, <<>>))
                   /\ teams'.text = teams.text
                   /\ teams'.returned = "normal"
                   /\ teams'.response = Some([status |-> 200, detail |-> ""])
                   /\ <<slack_app, teams_bot, chain, session_history>>' =
                         <<slack_app, teams_bot, chain, session_history>>) ]_vars
    /\ [](
          /\ (LoopFree /\ slack.pc = "done" /\ wcall["slack"].pc = "raised")
              => (\A e \in SlackEvents :
                     /\ (e.type = "app_mention" => ENABLED SlackAppMention(e))
                     /\ (e.type = "message" => ENABLED SlackMessageEvent(e)))
          /\ (LoopFree /\ teams.pc = "done" /\ wcall["teams"].pc = "raised")
              => (\A t \in TeamsTexts : ENABLED TeamsMessages(t, TRUE, TRUE)))

\* C13 witness: a Teams message whose generation call raised was answered
\* with the apology, and a Slack mention whose pipeline call raised shows the
\* error notice
C13_Witness ==
    /\ teams.pc = "done"
    /\ wcall["teams"].pc = "raised"
    /\ wcall["teams"].raised = "GenerationError"
    /\ teams.sent[Len(teams.sent)].text = TeamsApology
    /\ teams.returned = "normal"
    /\ slack.pc = "done"
    /\ wcall["slack"].pc = "raised"
    /\ slack.message[1].kind = "error"

\* C14: when the Slack handler has finished a mention or a DM it took a
\* placeholder for, and no stage of the pipeline (retrieval, rerank,
\* generation) raised for it, the orchestrator returned a QueryResult and the
\* placeholder has been replaced by that result's answer with its
\* deduplicated sources, not by an error notice.
C14_Claimed_SlackAnswerShown ==
    (/\ slack.pc = "done"
     /\ slack.submitted # None
     /\ wcall["slack"].raised \notin PipelineErrors)
    => (/\ wcall["slack"].pc = "returned"
        /\ slack.message =
              Some(SlackMessage("answer", wcall["slack"].result[1].answer,
                                slack_blocks(wcall["slack"].result[1]))))

\* the QueryResult of the invocation with locals c is made of that
\* invocation's own question and of the responses it received: the chunks
\* the index returned to it, what the reranker kept of them, the prompt
\* rendered from them and the content the model answered with
ResultIsOwn(c) ==
    c.pc = "returned" =>
        /\ c.result # None
        /\ c.result[1].query = c.question
        /\ IF c.n_rerank = 0
           THEN /\ c.retrieved_docs = <<>>
                /\ c.result[1].answer = FallbackAnswer
                /\ c.result[1].sources = <<>>
                /\ c.result[1].chunks_retrieved = 0
                /\ c.result[1].chunks_after_rerank = 0
           ELSE /\ c.response # None
                /\ c.result[1].answer = c.response[1].content
                /\ c.result[1].sources = _extract_sources(c.reranked_docs)
                /\ c.result[1].chunks_retrieved = Len(c.retrieved_docs)
                /\ c.result[1].chunks_after_rerank = Len(c.reranked_docs)
                /\ Range(c.reranked_docs) \subseteq Range(c.retrieved_docs)
                /\ c.messages = format_messages(chain[1].prompt,
                                    {<<"context", _build_context(c.reranked_docs)>>,
                                     <<"question", c.question>>}).value

\* C19: with a query of POST /query running on the loop thread and queries of
\* the chat adapters running in worker threads, interleaved in every order,
\* each invocation keeps the question it was called with, each returned
\* QueryResult (query, answer, sources, chunks_retrieved,
\* chunks_after_rerank) is made of that invocation's own question and
\* responses, and a step of one invocation changes the locals of no other.
C19_ConcurrentQueriesIndependent ==
    [][
        /\ ResultIsOwn(call)' /\ \A w \in Workers : ResultIsOwn(wcall[w])'
        /\ (http'.pc = "handling" /\ call'.pc # "idle")
              => call'.question = http'.request[1].question
        /\ (teams'.pc = "waiting" /\ wcall'["teams"].pc \notin {"idle", "submitted"})
              => wcall'["teams"].question = teams'.text
        /\ (call' # call) => (wcall' = wcall)
        /\ \A w \in Workers :
              (wcall'[w] # wcall[w]) =>
                  (call' = call /\ \A v \in Workers \ {w} : wcall'[v] = wcall[v])
    ]_vars

\* C19 witness: the query of a POST /query for q1 has returned a generated
\* answer while the query of a Teams message asking q2, handed to its thread
\* before that request came in, is still waiting for the model
C19_Witness ==
    /\ http.pc = "handling"
    /\ call.pc = "returned"
    /\ call.question = "q1"
    /\ call.n_llm = 1
    /\ teams.pc = "waiting"
    /\ wcall["teams"].pc = "generate"
    /\ wcall["teams"].question = "q2"

\* C20: a POST /query request that passed validation and has been answered
\* ended in one of three ways: 200 with a non-empty generated answer, its
\* sources and its metrics; 200 with the fixed no-knowledge answer; or an
\* error response carrying a failure detail.  It is never answered 200 with
\* an empty answer.
C20_Claimed_QueryOutcomes ==
    (http.pc = "responded" /\ http.request # None) =>
        LET r == http.response[1]
        IN  \/ /\ r.status = 200
               /\ call.n_llm = 1
               /\ r.answer \notin {"", FallbackAnswer}
               /\ r.sources = _extract_sources(call.reranked_docs)
               /\ r.metrics.chunks_retrieved = Len(call.retrieved_docs)
               /\ r.metrics.chunks_after_rerank = Len(call.reranked_docs)
            \/ /\ r.status = 200
               /\ call.n_llm = 0
               /\ r.answer = FallbackAnswer
               /\ r.sources = <<>>
            \/ /\ r.status = 500
               /\ r.detail # ""
               /\ r.answer = ""


-----------------------------------------------------------------------------
(* Loading documents *)

\* the documents load_document gives for a file that its loader reads
DocumentsOf(name) == load_document(name).value

\* the scanned files of a listing that load, each replaced by its documents
RECURSIVE LoadedOf(_, _)
LoadedOf(scan, i) ==
    IF i > Len(scan) THEN <<>>
    ELSE (IF load_document(scan[i]).raised = "" THEN DocumentsOf(scan[i]) ELSE <<>>)
         \o LoadedOf(scan, i + 1)

C16_LoadDocumentRejects ==
    ing.op = "load_document" =>
        LET name == ing.arg[1]
            ext  == Lower(PathSuffix(name))
        IN  /\ ~HasFile(name) =>
                  /\ ing.out.raised = "FileNotFoundError"
                  /\ ing.out.loader_calls = <<>>
                  /\ ing.out.value = <<>>
            /\ (HasFile(name) /\ ext \notin {ExtPdf, ExtDocx, ExtTxt}) =>
                  /\ ing.out.raised = "ValueError"
                  /\ ing.out.detail = <<ext, ExtPdf, ExtDocx, ExtTxt>>
                  /\ ing.out.loader_calls = <<>>
                  /\ ing.out.value = <<>>
            /\ (HasFile(name) /\ ext \in {ExtPdf, ExtDocx, ExtTxt}) =>
                  /\ ing.out.raised \notin {"FileNotFoundError", "ValueError"}
                  /\ ing.out.loader_calls = <<name>>

\* an existing file with an unsupported extension was rejected, in a
\* directory that also holds a supported file written in upper case
C16_Witness ==
    /\ ing.op = "load_document"
    /\ HasFile(ing.arg[1])
    /\ PathSuffix(ing.arg[1]) = ExtXlsx
    /\ ing.out.raised = "ValueError"
    /\ \E x \in fs.files : PathSuffix(x.name) # Lower(PathSuffix(x.name))


-----------------------------------------------------------------------------
(* Chunking *)

\* the calls DocumentIngestor(chunk_size=S, chunk_overlap=O) the chunking
\* contract speaks about: both given, S > 0 and 0 <= O < S
ExplicitChunking(args) ==
    /\ args[1] # None /\ args[2] # None
    /\ args[1][1] > 0
    /\ 0 <= args[2][1] /\ args[2][1] < args[1][1]

\* C17 as claimed: for an ingestor built with explicit chunk_size S and
\* chunk_overlap O, 0 <= O < S, splitting a document of length L > S gives
\* more than one chunk, every chunk holds at most S characters, and every
\* chunk after the first shares at most O characters with the chunk before
C17_Claimed_ChunksWithinSizeAndOverlap ==
    (/\ ing.op = "split_documents"
     /\ ing.ctor # None
     /\ ExplicitChunking(ing.ctor[1])
     /\ ing.arg[1] > ing.ctor[1][1][1])
    => LET S      == ing.ctor[1][1][1]
           O      == ing.ctor[1][2][1]
           chunks == ing.out.value
       IN  /\ Len(chunks) > 1
           /\ \A k \in 1..Len(chunks) : ChunkLen(chunks[k]) <= S
           /\ \A k \in 2..Len(chunks) : Overlap(chunks[k - 1], chunks[k]) <= O

\* C18 as claimed: DocumentIngestor(chunk_size=S, chunk_overlap=O) with
\* S > 0 and 0 <= O < S is constructed and it and its splitter use exactly
\* S and O; a configured default is used only for an argument not supplied
C18_Claimed_ExplicitValuesUsed ==
    ing.op = "init" =>
        /\ ExplicitChunking(ing.arg) =>
              /\ ing.out.raised = ""
              /\ ingestor # None
              /\ ingestor[1].chunk_size = ing.arg[1][1]
              /\ ingestor[1].chunk_overlap = ing.arg[2][1]
              /\ ingestor[1].text_splitter.chunk_size = ing.arg[1][1]
              /\ ingestor[1].text_splitter.chunk_overlap = ing.arg[2][1]
        /\ (ing.out.raised = "" /\ ing.arg[2] # None /\ ing.arg[2][1] >= 0) =>
              ingestor[1].chunk_overlap = ing.arg[2][1]


-----------------------------------------------------------------------------
(* The order of the pipeline stages *)

\* C21: in HRPolicyChain.query the reranker is invoked only in an invocation
\* whose index query has returned at least one chunk, and the generation
\* model only after the reranker has returned; in an invocation whose index
\* query returned nothing, the reranker, the prompt rendering and the
\* generation model are never invoked
C21_StagesInOrder ==
    /\ [][ /\ call'.n_rerank > call.n_rerank =>
                /\ call.n_index = 1
                /\ call.retrieved_docs # <<>>
                /\ call.n_llm = 0
           /\ call'.n_llm > call.n_llm =>
                /\ call.n_rerank = 1
                /\ call.reranked_docs # <<>>
                /\ call.messages # <<>>
           /\ call'.messages # call.messages =>
                (call'.messages = <<>> \/ call.retrieved_docs # <<>>)
         ]_vars
    /\ [](RetrievedNothing =>
             /\ call.n_rerank = 0
             /\ call.n_llm = 0
             /\ call.messages = <<>>
             /\ call.context = <<>>
             /\ ~ENABLED (ChainRerank \/ ChainGenerate))

\* C21 witness: an invocation that retrieved two chunks, reranked them and
\* then generated has returned, each stage invoked once
C21_Witness ==
    /\ call.pc = "returned"
    /\ Len(call.retrieved_docs) = 2
    /\ call.n_index = 1 /\ call.n_rerank = 1 /\ call.n_llm = 1
    /\ call.messages # <<>>
    /\ call.result[1].answer = "generated answer"


-----------------------------------------------------------------------------
(* The prompt version of a request *)

\* C22 as claimed: when POST /query carrying a registered prompt_version v
\* (the default when the field is omitted) is answered after generation,
\* the messages handed to the model were rendered from the template
\* registered as v and the response's metrics.prompt_version is v
C22_Claimed_RequestedPromptUsed ==
    (/\ http.pc = "responded"
     /\ http.request # None
     /\ http.request[1].prompt_version \in Range(list_prompt_versions)
     /\ call.pc = "returned"
     /\ call.n_llm = 1)
    => LET v == http.request[1].prompt_version
       IN  /\ http.response[1].status = 200
           /\ http.response[1].metrics.prompt_version = v
           /\ \A k \in 1..Len(call.messages) :
                 call.messages[k].template = get_prompt(v).value[1].name


-----------------------------------------------------------------------------
(* The context handed to the prompt *)

\* the pieces of the string s between occurrences of the token sep
RECURSIVE SplitOn(_, _)
SplitOn(s, sep) ==
    IF \A k \in 1..Len(s) : s[k] # sep THEN <<s>>
    ELSE LET p == CHOOSE k \in 1..Len(s) :
                     s[k] = sep /\ \A j \in 1..(k - 1) : s[j] # sep
         IN  <<SubSeq(s, 1, p - 1)>> \o SplitOn(SubSeq(s, p + 1, Len(s)), sep)

\* the source name written in the header of a segment: what stands between
\* ": " and ", Page "
SegmentSource(seg) ==
    LET p == CHOOSE k \in 1..Len(seg) : seg[k] = ", Page "
    IN  SubSeq(seg, 4, p - 1)

\* position of the first segment whose header names the document name
FirstSegmentOf(segments, name) ==
    CHOOSE i \in 1..Len(segments) :
        /\ SegmentSource(segments[i]) = name
        /\ \A j \in 1..(i - 1) : SegmentSource(segments[j]) # name

\* has the metadata of doc the key?
HasKey(doc, key) == \E kv \in doc.metadata : kv[1] = key

\* C23: the context handed to the prompt has exactly one segment per
\* reranked chunk, in rank order, the segments joined by the separator;
\* segment i is a header with the position i and the chunk's source name and
\* page ("Unknown" and "N/A" when the chunk has none) followed by the
\* chunk's text; and the documents of sources appear in the order of their
\* first segment in the context
C23_ContextSegments ==
    call.reranked_docs # <<>> =>
        LET docs     == call.reranked_docs
            segments == SplitOn(call.context, ContextSeparator)
        IN  /\ Len(segments) = Len(docs)
            /\ \A i \in 1..Len(docs) :
                  LET src  == IF HasKey(docs[i], "source")
                              THEN DictGet(docs[i].metadata, "source", <<>>)
                              ELSE <<"U", "n", "k", "n", "o", "w", "n">>
                      page == IF HasKey(docs[i], "page")
                              THEN DictGet(docs[i].metadata, "page", "")
                              ELSE "N/A"
                  IN  segments[i] =
                         <<"[Document ", <<"1", "2", "3", "4", "5">>[i], ": ">> \o src
                         \o <<", Page ", page, "]\n", docs[i].page_content>>
            /\ \A i, j \in 1..Len(call.sources) :
                  i < j => FirstSegmentOf(segments, call.sources[i].document)
                             < FirstSegmentOf(segments, call.sources[j].document)
            /\ \A k \in 1..Len(call.messages) :
                  \A kv \in call.messages[k].filled :
                     kv[1] = "context" => kv[2] = call.context

\* C23 witness: two chunks were reranked, the first without a source name,
\* the second without a page; the context has two segments and was handed
\* to the prompt
C23_Witness ==
    /\ call.pc \in {"generate", "returned"}
    /\ Len(call.reranked_docs) = 2
    /\ call.reranked_docs[1].id = "c4"
    /\ call.reranked_docs[2].id = "c3"
    /\ Len(SplitOn(call.context, ContextSeparator)) = 2
    /\ call.messages # <<>>


-----------------------------------------------------------------------------
(* The observability record *)

\* C24: a query invocation that completes generation has written exactly
\* one observability record, written in the step in which the model was
\* invoked and present when the result is returned, whose funnel sizes,
\* token count and prompt version are those of the returned QueryResult;
\* tokens_used is 0 when the model reports no total; an invocation that
\* raised, or that has not completed generation, has written none
C24_OneObservabilityRecord ==
    /\ [][ log' # log =>
              \/ log' = <<>>
              \/ /\ call.n_llm = 0 /\ call'.n_llm = 1
                 /\ call'.pc = "returned"
                 /\ Len(log') = Len(log) + 1
         ]_vars
    /\ [](/\ (call.pc = "returned" /\ call.n_llm = 1) =>
                /\ Len(log) = 1
                /\ log[1].chunks_retrieved = call.result[1].chunks_retrieved
                /\ log[1].chunks_after_rerank = call.result[1].chunks_after_rerank
                /\ log[1].tokens = call.result[1].tokens_used
                /\ log[1].prompt = call.result[1].prompt_version
                /\ (\A kv \in call.response[1].usage_metadata : kv[1] # "total_tokens")
                      => call.result[1].tokens_used = 0
                /\ \A kv \in call.response[1].usage_metadata :
                      kv[1] = "total_tokens" => call.result[1].tokens_used = kv[2]
          /\ ~(call.pc = "returned" /\ call.n_llm = 1) => log = <<>>)

\* C24 witness: two of three retrieved chunks survived reranking, the model
\* reported 7 tokens, and the one record says 3, 2 and 7
C24_Witness ==
    /\ call.pc = "returned"
    /\ Len(log) = 1
    /\ log[1].chunks_retrieved = 3
    /\ log[1].chunks_after_rerank = 2
    /\ log[1].tokens = 7


-----------------------------------------------------------------------------
(* The Slack session history *)

\* C25: after any sequence of update_session_history calls, each thread's
\* stored history has at most 5 turns and is the last (up to 5) turns
\* appended for that thread, in append order; an update for one thread
\* leaves the stored history of every other thread as it was; and
\* get_session_history of a thread never updated is empty
C25_HistoryKeepsLastFive ==
    /\ [][ sh'.op = "update" =>
              \A t \in ThreadIds \ {sh'.thread_id} :
                 DictGet(session_history', t, <<>>) = DictGet(session_history, t, <<>>)
         ]_vars
    /\ [](\A t \in ThreadIds :
             LET stored   == DictGet(session_history, t, <<>>)
                 appended == DictGet(sh.turns, t, <<>>)
             IN  /\ Len(stored) <= 5
                 /\ Len(stored) = IF Len(appended) < 5 THEN Len(appended) ELSE 5
                 /\ \A k \in 1..Len(stored) :
                       stored[k] = appended[Len(appended) - Len(stored) + k]
                 /\ (sh.op = "get" /\ sh.thread_id = t) => sh.got = stored
                 /\ (sh.op = "get" /\ sh.thread_id = t /\ appended = <<>>) => sh.got = <<>>
                 /\ Cardinality({p \in session_history : p[1] = t}) <= 1)

\* C25 witness: six turns were appended for one thread, which keeps five,
\* after a turn had been stored for another thread, which is still there
C25_Witness ==
    /\ sh.op = "update"
    /\ Len(DictGet(sh.turns, "t1", <<>>)) = 6
    /\ Len(DictGet(session_history, "t1", <<>>)) = 5
    /\ DictGet(sh.turns, "t1", <<>>)[1] # DictGet(session_history, "t1", <<>>)[1]
    /\ Len(DictGet(session_history, "t2", <<>>)) = 1


-----------------------------------------------------------------------------
(* Process start without chat credentials *)

\* the environment sets no Slack and no Teams credential
NoChatCredentials ==
    startup.env \cap {"slack_bot_token", "slack_signing_secret", "slack_app_token",
                      "microsoft_app_id", "microsoft_app_password"} = {}

\* C26 as claimed: when no Slack and no Teams credential is configured,
\* lifespan runs to its yield with both chat adapters disabled and the RAG
\* components initialised: the application serves, slack_app and teams_bot
\* are None (so POST /slack/events and POST /api/messages answer 503), and
\* no step failed because a chat-platform setting is absent
C26_Claimed_StartsWithoutChatCredentials ==
    (NoChatCredentials /\ startup.pc \notin {"start", "imported"}) =>
        /\ startup.pc = "serving"
        /\ startup.raised = ""
        /\ chain # None
        /\ ingestor # None
        /\ ~slack_app
        /\ teams_bot = None


-----------------------------------------------------------------------------
(* The retrieval funnel *)

\* C27: every QueryResult returned by query satisfies len(sources) <=
\* chunks_after_rerank <= chunks_retrieved <= top_k_retrieval and
\* chunks_after_rerank <= top_k_rerank; when the index holds exactly one
\* chunk, chunks_retrieved and chunks_after_rerank are 1 and sources has
\* exactly one entry, naming that chunk's document
C27_FunnelSizes ==
    call.pc = "returned" =>
        LET result == call.result[1]
        IN  /\ Len(result.sources) <= result.chunks_after_rerank
            /\ result.chunks_after_rerank <= result.chunks_retrieved
            /\ result.chunks_retrieved <= settings.top_k_retrieval
            /\ result.chunks_after_rerank <= settings.top_k_rerank
            /\ Cardinality(index) = 1 =>
                  /\ result.chunks_retrieved = 1
                  /\ result.chunks_after_rerank = 1
                  /\ Len(result.sources) = 1
                  /\ \A c \in index :
                        result.sources[1].document =
                           (IF HasKey(c, "source") THEN DictGet(c.metadata, "source", <<>>)
                            ELSE <<"U", "n", "k", "n", "o", "w", "n">>)

\* C27 witness: of three chunks in the index two were retrieved
\* (top_k_retrieval = 2) and one survived reranking (top_k_rerank = 1)
C27_Witness ==
    /\ call.pc = "returned"
    /\ Cardinality(index) = 3
    /\ settings.top_k_retrieval = 2
    /\ settings.top_k_rerank = 1
    /\ call.result[1].chunks_retrieved = 2
    /\ call.result[1].chunks_after_rerank = 1
    /\ Len(call.result[1].sources) = 1


-----------------------------------------------------------------------------
(* The question and prompt version of a result *)

\* C28 as claimed: every QueryResult returned by query, after generation
\* and on the no-knowledge path alike, carries the question asked as query
\* and, as prompt_version, the version the chain was constructed with, which
\* is a registered one
C28_Claimed_ResultNamesPromptVersion ==
    call.pc = "returned" =>
        /\ call.result[1].query = call.question
        /\ call.result[1].prompt_version = chain[1].prompt_version
        /\ chain[1].prompt_version \in Range(list_prompt_versions)


-----------------------------------------------------------------------------
(* What the Slack handler does to the session history *)

\* the session history of a thread after one more turn
WithTurn(history, human, ai) ==
    LET h == Append(history, <<human, ai>>)
    IN  SubSeq(h, IF Len(h) > HistoryCap THEN Len(h) - HistoryCap + 1 ELSE 1, Len(h))

-----------------------------------------------------------------------------
(* The source name of uploaded chunks *)

\* the chunks the latest upload inserted into the index
LastUploadChunks == {c \in index : \E k \in 1..2 : c.id = UploadChunkId(tmp_seq, k)}

\* C30: after a POST /upload under filename F that ingested successfully,
\* every chunk that upload inserted into the index carries metadata source
\* equal to F
C30_Claimed_UploadedChunksNameTheFile ==
    (up.response # None /\ up.response[1].status = 200) =>
        \A c \in LastUploadChunks : DictGet(c.metadata, "source", <<>>) = up.filename

====
